---- MODULE Spec2Model ----
(***************************************************************************)
(* A model of rust/net/src/chat/ws2.rs: the Chat handle (send, disconnect, *)
(* set_listener), the Responder, the listener slot state machine and the   *)
(* task that drives the connection (spawned_task_body, handle_one_event).  *)
(* The websocket codec (libsignal_net_infra::ws2::Connection) is external: *)
(* it pulls items from the outgoing stream and reports events; here it may *)
(* report any event the MessageEvent / NextEventError types allow.         *)
(***************************************************************************)
EXTENDS Integers, Sequences, FiniteSets, TLC

\* ---------------------------------------------------------------- bounds
\* number of Chat::send calls made on the connection
MaxSends == 2
\* number of incoming request frames the peer sends
MaxIncoming == 2
\* number of distinct listener callbacks a caller can install
MaxListeners == 2
\* width of a request id in bits (u64 in the source, scaled down)
IdBits == 2

\* number of distinct ids of each kind of backup frame
MaxIds == 2
\* number of distinct payloads a backup frame can carry
MaxPayloads == 2
\* number of chat items added to one chat
MaxItems == 2

IdMod == 2 ^ IdBits
Calls == 1 .. MaxSends
Listeners == 1 .. MaxListeners
\* Option<Box<dyn FnMut>>::None
NoListener == 0
OutIds == 0 .. (IdMod - 1)
\* the id of the peer's first request (INITIAL_INCOMING_REQUEST_ID in the tests);
\* the peer numbers its requests from there
InitialIncomingRequestId == 88
\* Config::initial_request_id values tried: 0 and u64::MAX
InitialRequestIds == {0, IdMod - 1}
\* the errors the codec reports in most runs: one NextEventError and two
\* TungsteniteSendErrors
FewFaults == {"AbnormalServerClose", "Io", "ConnectionAlreadyClosed"}
\* every NextEventError and TungsteniteSendError
AllFaults ==
    {"PingFailed", "CloseFailed", "AbnormalServerClose", "ReceiveError",
     "ServerIdleTimeout", "UnexpectedConnectionClose",
     "ConnectionAlreadyClosed", "Io", "MessageTooLarge", "WebSocketProtocol"}
\* what one connection sees: how many calls the application makes, how many
\* requests the peer sends, and which errors the codec may report
Workloads ==
    {[sends |-> MaxSends, incoming |-> 0, faults |-> FewFaults],
     [sends |-> MaxSends - 1, incoming |-> MaxIncoming - 1, faults |-> FewFaults],
     [sends |-> 0, incoming |-> MaxIncoming, faults |-> FewFaults],
     [sends |-> MaxSends - 1, incoming |-> 0, faults |-> AllFaults]}
\* StatusCode values passed to Responder::send_response
Statuses == {200, 201}

\* mpsc::channel(1)
RequestChannelCapacity == 1

VARIABLES
    workload,            \* the calls and requests this connection will see
    state,               \* Chat::state: TaskState
    lock_owner,          \* the send call holding Chat::state's TokioMutex across an await (0: nobody)
    disconnects,         \* whether a Chat::disconnect call has completed
    outliving,           \* the Responders that were unused when a Chat::disconnect call completed
    awaiting,            \* the send calls that were awaiting their reply when a Chat::disconnect call completed
    sends,               \* per Chat::send call: where it is, whether it holds a request_tx clone, its return value
    reply,               \* per Chat::send call: its oneshot channel
    assigned,            \* per Chat::send call: the id its request was encoded with (-1: none yet)
    request_chan,        \* buffer of the bounded request channel
    response_chan,       \* buffer of the unbounded response channel
    rx,                  \* the receivers owned by the task's outgoing stream: "open" or "dropped"
    initial_request_id,  \* Config::initial_request_id
    request_id,          \* the counter captured by the request_rx map closure
    sent_request_ids,    \* ids of the outbound request frames, in the order they were encoded
    sent_responses,      \* outbound response frames, in the order they were encoded
    codec_pending,       \* OutgoingMeta of the items the codec took and has not reported on
    outgoing_ended,      \* the codec saw the end of the outgoing stream
    requests_in_flight,  \* InFlightRequests::outstanding_reqs
    listener,            \* Chat::incoming_event_listener: ListenerState
    callback,            \* the listener invocation the task is waiting for
    in_progress,         \* number of listener callbacks executing
    events,              \* the events listeners were invoked with, in order
    responders,          \* the Responders handed to listeners
    incoming,            \* ids of the incoming requests the task received, in order
    task,                \* where spawned_task_body is
    exit_result,         \* the loop's result in spawned_task_body ("none" while looping)
    task_output,         \* the JoinHandle's output ("none" until the task ended)
    backup_file,         \* the kinds of frames in the backup file being read
    partial,             \* a PartialBackup<M>, with its Method M
    frame_result         \* what the last PartialBackup::add_frame call returned

vars == << workload, state, lock_owner, disconnects, outliving, awaiting, sends, reply, assigned, request_chan,
           response_chan, rx, initial_request_id, request_id, sent_request_ids,
           sent_responses, codec_pending, outgoing_ended, requests_in_flight,
           listener, callback, in_progress, events, responders, incoming, task,
           exit_result, task_output, backup_file, partial, frame_result >>

\* ------------------------------------------------------------ TaskState
MaybeStillRunning ==
    [tag |-> "MaybeStillRunning", request_tx |-> TRUE, response_tx |-> TRUE, result |-> "none"]
\* a disconnect that drops request_tx only
SignaledToEndKeepingResponseTx ==
    [tag |-> "SignaledToEnd", request_tx |-> FALSE, response_tx |-> TRUE, result |-> "none"]
SignaledToEnd ==
    [tag |-> "SignaledToEnd", request_tx |-> FALSE, response_tx |-> FALSE, result |-> "none"]
Finished(r) ==
    [tag |-> "Finished", request_tx |-> FALSE, response_tx |-> FALSE, result |-> r]

\* ------------------------------------------------------------ SendError
Ok(id) == [kind |-> "Ok", id |-> id, reason |-> ""]
Disconnected(reason) == [kind |-> "Disconnected", id |-> -1, reason |-> reason]
SendErr(kind) == [kind |-> kind, id |-> -1, reason |-> ""]
NoResult == [kind |-> "none", id |-> -1, reason |-> ""]

\* impl From<&TaskErrorState> for SendError
SendErrorFromTaskErrorState(e) ==
    CASE e = "SendFailed" -> Disconnected("send failed")
      [] e = "Panic" -> Disconnected("chat task panicked")
      [] e = "AbnormalServerClose" -> Disconnected("server closed abnormally")
      [] e = "ReceiveFailed" -> Disconnected("receive failed")
      [] e = "ServerIdleTooLong" -> Disconnected("server idle too long")
      [] e = "UnexpectedConnectionClose" -> Disconnected("server closed unexpectedly")

NextEventErrors ==
    {"PingFailed", "CloseFailed", "AbnormalServerClose", "ReceiveError",
     "ServerIdleTimeout", "UnexpectedConnectionClose"}

\* a conversion that records every error as a send failure
TaskErrorStateAlwaysSendFailed(e) == "SendFailed"

\* impl From<&TaskExitError> for TaskErrorState
TaskErrorStateFrom(e) ==
    CASE e \in {"PingFailed", "CloseFailed"} -> "SendFailed"
      [] e = "AbnormalServerClose" -> "AbnormalServerClose"
      [] e = "ReceiveError" -> "ReceiveFailed"
      [] e = "ServerIdleTimeout" -> "ServerIdleTooLong"
      [] e = "UnexpectedConnectionClose" -> "UnexpectedConnectionClose"
      [] e \in {"SendIo", "SendTooLarge", "SendProtocol"} -> "SendFailed"

TungsteniteSendErrors ==
    {"ConnectionAlreadyClosed", "Io", "MessageTooLarge", "WebSocketProtocol"}

\* impl From<&TungsteniteSendError> for SendError
SendErrorFromTungstenite(e) ==
    CASE e = "Io" -> SendErr("Io")
      [] e = "ConnectionAlreadyClosed" -> Disconnected("task failure due to send failure")
      [] e = "MessageTooLarge" -> SendErr("MessageTooLarge")
      [] e = "WebSocketProtocol" -> SendErr("Protocol")

\* a send failure that always makes the task exit with an error
TaskExitStatusNeverOk(e) ==
    CASE e \in {"ConnectionAlreadyClosed", "Io"} -> "SendIo"
      [] e = "MessageTooLarge" -> "SendTooLarge"
      [] e = "WebSocketProtocol" -> "SendProtocol"

\* a send failure that never makes the task exit with an error
TaskExitStatusAlwaysOk(e) == "Ok"

\* the match on &send_error in handle_inner_response
TaskExitStatusFor(e) ==
    CASE e = "ConnectionAlreadyClosed" -> "Ok"
      [] e = "Io" -> "SendIo"
      [] e = "MessageTooLarge" -> "SendTooLarge"
      [] e = "WebSocketProtocol" -> "SendProtocol"

\* result.as_ref().map_err(Into::into) in spawned_task_body
TaskResultOf(r) == IF r = "Ok" THEN "Ok" ELSE TaskErrorStateFrom(r)

\* ------------------------------------------------------- oneshot channel
Empty == [st |-> "empty", kind |-> "", id |-> -1, err |-> ""]
Dropped == [st |-> "dropped", kind |-> "", id |-> -1, err |-> ""]
SentOk(id) == [st |-> "sent", kind |-> "Ok", id |-> id, err |-> ""]
SentStreamSendFailed(e) == [st |-> "sent", kind |-> "StreamSendFailed", id |-> -1, err |-> e]
SentInvalidResponse == [st |-> "sent", kind |-> "InvalidResponse", id |-> -1, err |-> ""]

\* a send that looks at the handle's state again when its reply arrives and
\* gives up if the task was signalled to end
SendResultAfterDisconnect(r) ==
    CASE state.tag # "MaybeStillRunning" -> Disconnected("task was already signalled to end")
      [] r.st = "dropped" -> Disconnected("response channel sender was dropped")
      [] r.kind = "Ok" -> Ok(r.id)
      [] r.kind = "StreamSendFailed" -> SendErrorFromTungstenite(r.err)
      [] r.kind = "InvalidResponse" -> SendErr("InvalidResponse")

\* what the receiver.await in send_request turns its oneshot into
\* (impl From<TaskSendError> for SendError)
SendResultOf(r) ==
    CASE r.st = "dropped" -> Disconnected("response channel sender was dropped")
      [] r.kind = "Ok" -> Ok(r.id)
      [] r.kind = "StreamSendFailed" -> SendErrorFromTungstenite(r.err)
      [] r.kind = "InvalidResponse" -> SendErr("InvalidResponse")

\* ------------------------------------------------------- message codec
\* MessageProto as received: a text frame, bytes that do not decode, or a
\* decoded envelope {type, request, response}.
NoRequest == [present |-> FALSE, has_id |-> FALSE, id |-> -1]
NoResponse == [present |-> FALSE, has_id |-> FALSE, id |-> -1, valid |-> FALSE]
RequestProto(id) == [present |-> TRUE, has_id |-> TRUE, id |-> id]
RequestProtoNoId == [present |-> TRUE, has_id |-> FALSE, id |-> -1]
ResponseProto(id, valid) == [present |-> TRUE, has_id |-> TRUE, id |-> id, valid |-> valid]
ResponseProtoNoId == [present |-> TRUE, has_id |-> FALSE, id |-> -1, valid |-> TRUE]

Binary(type, request, response) ==
    [text |-> FALSE, decodes |-> TRUE, type |-> type, request |-> request, response |-> response]
Text == [text |-> TRUE, decodes |-> FALSE, type |-> "None", request |-> NoRequest, response |-> NoResponse]
Garbage == [text |-> FALSE, decodes |-> FALSE, type |-> "None", request |-> NoRequest, response |-> NoResponse]

\* r#type: absent, one of the ChatMessageType values, or a number that is none of them
MessageTypes == {"None", "Unknown", "Request", "Response", "Invalid"}

\* a conversion that tags every envelope as a Request
MessageProtoFromResponseMistyped(response) == Binary("Request", NoRequest, response)

\* impl From<ChatMessageProto> for MessageProto
MessageProtoFromRequest(request) == Binary("Request", request, NoResponse)
MessageProtoFromResponse(response) == Binary("Response", NoRequest, response)

\* one field of an encoded MessageProto
WireField(field, type, request, response) ==
    [field |-> field, type |-> type, request |-> request, response |-> response]
\* MessageProto::encode_to_vec: the fields that are set, in the order of their
\* numbers; a payload that is set is written even when it is empty
encode_to_vec(m) ==
    (IF m.type # "None" THEN << WireField("type", m.type, NoRequest, NoResponse) >> ELSE << >>)
    \o (IF m.request.present
          THEN << WireField("request", "None", m.request, NoResponse) >> ELSE << >>)
    \o (IF m.response.present
          THEN << WireField("response", "None", NoRequest, m.response) >> ELSE << >>)
\* MessageProto::decode on well-formed bytes: a field that does not occur is
\* None, the last occurrence of a field stands
MessageProtoDecode(data) ==
    LET At(field) == {i \in 1 .. Len(data) : data[i].field = field}
        Last(field) == CHOOSE i \in At(field) : \A j \in At(field) : j <= i
    IN  Binary(IF At("type") = {} THEN "None" ELSE data[Last("type")].type,
               IF At("request") = {} THEN NoRequest ELSE data[Last("request")].request,
               IF At("response") = {} THEN NoResponse ELSE data[Last("response")].response)

\* the frames the peer sends in this model
Frames ==
    {Text, Garbage}
    \cup {Binary(t, NoRequest, NoResponse) : t \in MessageTypes}
    \cup {MessageProtoFromRequest(RequestProto(InitialIncomingRequestId + Len(incoming)))}
    \cup {MessageProtoFromRequest(RequestProtoNoId)}
    \cup {MessageProtoFromResponse(ResponseProto(i, v)) : i \in OutIds, v \in BOOLEAN}
    \cup {MessageProtoFromResponse(ResponseProtoNoId)}
    \cup {Binary(t, RequestProtoNoId, ResponseProtoNoId) : t \in {"Request", "Response"}}
    \cup {Binary("Request", NoRequest, ResponseProtoNoId), Binary("Response", RequestProtoNoId, NoResponse)}

DataError(e) == [ok |-> FALSE, err |-> e, variant |-> "", request |-> NoRequest, response |-> NoResponse]

\* a validation that accepts a message of type Request or Response as soon as
\* the payload of that type is present
decode_and_validate_lenient(m) ==
    IF ~m.decodes THEN DataError("InvalidProtobuf")
    ELSE IF m.type = "Invalid" THEN DataError("InvalidMessageType")
    ELSE IF m.type \in {"None", "Unknown"} THEN DataError("UnknownMessageType")
    ELSE IF m.type = "Request" /\ m.request.present
        THEN [ok |-> TRUE, err |-> "", variant |-> "Request", request |-> m.request, response |-> NoResponse]
    ELSE IF m.type = "Response" /\ m.response.present
        THEN [ok |-> TRUE, err |-> "", variant |-> "Response", request |-> NoRequest, response |-> m.response]
    ELSE IF ~m.request.present /\ ~m.response.present THEN DataError("MissingPayload")
    ELSE IF m.type = "Request" THEN DataError("RequestHasResponse")
    ELSE DataError("ResponseHasRequest")

\* fn decode_and_validate
decode_and_validate(m) ==
    IF ~m.decodes THEN DataError("InvalidProtobuf")
    ELSE IF m.type = "Invalid" THEN DataError("InvalidMessageType")
    ELSE IF m.type \in {"None", "Unknown"} THEN DataError("UnknownMessageType")
    ELSE IF m.type = "Request" /\ m.request.present /\ ~m.response.present
        THEN [ok |-> TRUE, err |-> "", variant |-> "Request", request |-> m.request, response |-> NoResponse]
    ELSE IF m.type = "Response" /\ ~m.request.present /\ m.response.present
        THEN [ok |-> TRUE, err |-> "", variant |-> "Response", request |-> NoRequest, response |-> m.response]
    ELSE IF ~m.request.present /\ ~m.response.present THEN DataError("MissingPayload")
    ELSE IF m.type = "Request" THEN DataError("RequestHasResponse")
    ELSE DataError("ResponseHasRequest")

ChatProtocolError(e, id) == [kind |-> "Err", err |-> e, id |-> id]

\* a conversion that reads a missing id as 0, the default of the protobuf field
ChatMessageTryFromDefaultId(m) ==
    IF m.text THEN ChatProtocolError("ReceivedTextMessage", -1)
    ELSE LET d == decode_and_validate(m) IN
        IF ~d.ok THEN ChatProtocolError(d.err, -1)
        ELSE IF d.variant = "Request" THEN
            [kind |-> "Request", err |-> "",
             id |-> IF d.request.has_id THEN d.request.id ELSE 0]
        ELSE
            [kind |-> "Response", err |-> "",
             id |-> IF d.response.has_id THEN d.response.id ELSE 0]

\* impl TryFrom<TextOrBinary> for ChatMessage
ChatMessageTryFrom(m) ==
    IF m.text THEN ChatProtocolError("ReceivedTextMessage", -1)
    ELSE LET d == decode_and_validate(m) IN
        IF ~d.ok THEN ChatProtocolError(d.err, -1)
        ELSE IF d.variant = "Request" THEN
            IF ~d.request.has_id THEN ChatProtocolError("RequestMissingId", -1)
            ELSE [kind |-> "Request", err |-> "", id |-> d.request.id]
        ELSE
            IF ~d.response.has_id THEN ChatProtocolError("ResponseMissingId", -1)
            ELSE IF ~d.response.valid THEN ChatProtocolError("InvalidResponse", d.response.id)
            ELSE [kind |-> "Response", err |-> "", id |-> d.response.id]

\* ------------------------------------------------------- request ids
\* request_id.saturating_add(1): the counter sticks at the largest id
SaturatingAdd(id) == IF id = IdMod - 1 THEN id ELSE id + 1

\* request_id.wrapping_add(1)
WrappingAdd(id) == (id + 1) % IdMod

\* ------------------------------------------------------- ListenerState
NotRunning(l) == [st |-> "NotRunning", cb |-> l]
Running == [st |-> "Running", cb |-> NoListener]
ReplacedWhileRunning(l) == [st |-> "ReplacedWhileRunning", cb |-> l]

\* a set_listener that stores the listener without looking at the slot
SetListenerStateOverwrite(s, l) == NotRunning(l)

\* the match in Chat::set_listener
SetListenerState(s, l) ==
    IF s.st = "NotRunning" THEN NotRunning(l) ELSE ReplacedWhileRunning(l)

\* the first critical section of send_event and send_event_blocking:
\* what is left in the slot, the listener taken, and how the call goes on
TakeListener(s) ==
    IF s.st = "NotRunning" /\ s.cb = NoListener
        THEN [slot |-> NotRunning(NoListener), taken |-> NoListener, go |-> "return"]
    ELSE IF s.st = "NotRunning"
        THEN [slot |-> Running, taken |-> s.cb, go |-> "call"]
    ELSE [slot |-> s, taken |-> NoListener, go |-> "unexpected"]

\* a second critical section that puts the callback it took back into the
\* slot even when the callback panicked
PutBackListenerTaken(s, returned_listener) ==
    IF s.st = "Running" THEN NotRunning(callback.taken)
    ELSE NotRunning(s.cb)

\* a second critical section that leaves the slot as it is when the callback
\* panicked
PutBackListenerUnlessPanicked(s, returned_listener) ==
    IF returned_listener = NoListener THEN s
    ELSE IF s.st = "Running" THEN NotRunning(returned_listener)
    ELSE NotRunning(s.cb)

\* the second critical section: the slot after the callback ended
PutBackListener(s, returned_listener) ==
    IF s.st = "Running" THEN NotRunning(returned_listener)
    ELSE NotRunning(s.cb)

NoCallback == [phase |-> "none", taken |-> NoListener, returned |-> NoListener]

ListenerEvent(ev, id, result) == [ev |-> ev, id |-> id, result |-> result]

\* ------------------------------------------------------- InFlightRequests
InFlightIds(t) == {e.id : e \in t}
\* outstanding_reqs.insert(id, response_sender)
InFlightInsert(t, id, call) == {e \in t : e.id # id} \cup {[id |-> id, call |-> call]}
\* a table that forgets every entry when one request is answered
InFlightRemoveAll(t, id) == {}
\* a table that hands out its entries without removing them
InFlightRemoveNothing(t, id) == t
\* outstanding_reqs.remove(&id)
InFlightRemove(t, id) == {e \in t : e.id # id}
\* a table that hands a response to every outstanding request, whatever its id
InFlightOwnersAnyId(t, id) == {e.call : e \in t}
InFlightOwners(t, id) == {e.call : e \in {x \in t : x.id = id}}

\* ------------------------------------------------------- channels
Range(s) == {s[i] : i \in 1 .. Len(s)}
\* strong mpsc::Sender<OutgoingRequest> handles: the one in TaskState and one per send call
RequestSenders ==
    (IF state.request_tx THEN 1 ELSE 0) + Cardinality({c \in Calls : sends[c].tx})
\* strong mpsc::UnboundedSender<OutgoingResponse> handles: the one in TaskState
\* and one per send_response call between its upgrade and its return
ResponseSenders ==
    (IF state.response_tx THEN 1 ELSE 0)
    + Cardinality({k \in 1 .. Len(responders) : responders[k].st = "upgraded"})

\* ------------------------------------------------------- PartialBackup
\* rust/message-backup/src/backup.rs. A frame is modelled by its item kind, the
\* id it carries, the ids it refers to (foreign: the recipient of a Chat or a
\* Call, the chat of a ChatItem; author: the author of a ChatItem), a payload v
\* and whether the conversion of its remaining fields succeeds.
Methods == {"ValidateOnly", "Store"}
BackupIds == 1 .. MaxIds
Payloads == 1 .. MaxPayloads
\* the id bytes of a StickerPack frame that are not a pack id
InvalidPackId == 0
\* what ValidateOnly keeps in place of a value
Unit == 0
NoId == 0

Frame(item, id, foreign, author, v, valid) ==
    [item |-> item, id |-> id, foreign |-> foreign, author |-> author, v |-> v, valid |-> valid]
\* proto::Frame { item: None }
EmptyFrame == Frame("None", NoId, NoId, NoId, Unit, TRUE)

BackupFrames ==
    {EmptyFrame}
    \cup {Frame("Account", NoId, NoId, NoId, v, ok) : v \in Payloads, ok \in BOOLEAN}
    \cup {Frame("Recipient", i, NoId, NoId, v, ok) : i \in BackupIds, v \in Payloads, ok \in BOOLEAN}
    \cup {Frame("Chat", i, r, NoId, Unit, ok) : i \in BackupIds, r \in BackupIds, ok \in BOOLEAN}
    \cup {Frame("ChatItem", NoId, c, a, Unit, ok) : c \in BackupIds, a \in BackupIds, ok \in BOOLEAN}
    \cup {Frame("Call", i, r, NoId, Unit, ok) : i \in BackupIds, r \in BackupIds, ok \in BOOLEAN}
    \cup {Frame("StickerPack", i, NoId, NoId, Unit, ok) : i \in {InvalidPackId, 1}, ok \in BOOLEAN}

\* the backup files read: the kinds of frames each holds
BackupFiles ==
    {{"None", "Account", "Recipient", "StickerPack"},
     {"Recipient", "Chat", "ChatItem"},
     {"Recipient", "Chat", "Call"}}

\* Result<(), ValidationError>
BackupOk == [kind |-> "Ok", err |-> "", id |-> NoId]
ValidationError(e, id) == [kind |-> "Err", err |-> e, id |-> id]
NoBackupResult == [kind |-> "none", err |-> "", id |-> NoId]

\* M::value
MethodValue(method, v) == IF method = "Store" THEN v ELSE Unit
EmptyMap == [i \in {} |-> Unit]
\* Contains::contains
MapContains(map, key) == key \in DOMAIN map
\* M::Map::insert: Err(KeyExists) when the key is present, and the map as it was
MapInsert(map, key, value) ==
    IF MapContains(map, key) THEN [ok |-> FALSE, map |-> map]
    ELSE [ok |-> TRUE,
          map |-> [i \in DOMAIN map \cup {key} |-> IF i = key THEN value ELSE map[i]]]

Converted(value) == [ok |-> TRUE, err |-> "", value |-> value]
ConversionError(e) == [ok |-> FALSE, err |-> e, value |-> Unit]
\* impl TryFrom<proto::AccountData> for AccountData
AccountDataTryFrom(account_data) ==
    IF account_data.valid THEN Converted(account_data.v) ELSE ConversionError("AccountData")
\* impl TryFrom<proto::Recipient> for RecipientData
RecipientTryFrom(recipient) ==
    IF recipient.valid THEN Converted(recipient.v) ELSE ConversionError("InvalidRecipient")
\* impl TryFrom<proto::Chat> for ChatData: a chat with no items yet
ChatTryFrom(chat) ==
    IF chat.valid THEN Converted([recipient |-> chat.foreign, v |-> chat.v, items |-> << >>])
    ELSE ConversionError("InvalidChat")
\* impl TryFromWith<proto::ChatItem, _> for ChatItemData: the author has to be a
\* recipient of the context
ChatItemTryFromWith(chat_item, recipients, calls) ==
    IF ~MapContains(recipients, chat_item.author) THEN ConversionError("AuthorNotFound")
    ELSE IF ~chat_item.valid THEN ConversionError("InvalidChatItem")
    ELSE Converted([chat |-> chat_item.foreign, author |-> chat_item.author])
\* impl TryFromWith<proto::Call, _> for Call: the recipient the call refers to
\* has to be a recipient of the context
CallTryFromWith(call, recipients, calls, chats) ==
    IF ~MapContains(recipients, call.foreign) THEN ConversionError("NoRecipientForCall")
    ELSE IF ~call.valid THEN ConversionError("InvalidCall")
    ELSE Converted([recipient |-> call.foreign, v |-> call.v])
\* impl TryFrom<proto::StickerPack> for StickerPack
StickerPackTryFrom(sticker_pack) ==
    IF sticker_pack.valid THEN Converted(Unit) ELSE ConversionError("PackError")

\* PartialBackup::new
PartialBackupNew(method) ==
    [method |-> method, account_data |-> << >>, recipients |-> EmptyMap,
     chats |-> EmptyMap, calls |-> EmptyMap, sticker_packs |-> {}]

\* what an add_* call leaves and returns
Accepted(self) == [self |-> self, result |-> BackupOk]
Rejected(self, e, id) == [self |-> self, result |-> ValidationError(e, id)]

\* an add_account_data that stores whatever valid AccountData comes last
add_account_data_last_wins(self, account_data) ==
    LET converted == AccountDataTryFrom(account_data) IN
    IF ~converted.ok THEN Rejected(self, converted.err, NoId)
    ELSE Accepted([self EXCEPT !.account_data = << MethodValue(self.method, converted.value) >>])

\* account_data: Option<M::Value<AccountData<M>>> is a sequence of length 0 or 1
add_account_data(self, account_data) ==
    IF self.account_data # << >> THEN Rejected(self, "MultipleAccountData", NoId)
    ELSE LET converted == AccountDataTryFrom(account_data) IN
        IF ~converted.ok THEN Rejected(self, converted.err, NoId)
        ELSE Accepted([self EXCEPT !.account_data = << MethodValue(self.method, converted.value) >>])

add_recipient(self, recipient) ==
    LET id == recipient.id
        converted == RecipientTryFrom(recipient)
    IN  IF ~converted.ok THEN Rejected(self, converted.err, id)
        ELSE LET inserted == MapInsert(self.recipients, id, MethodValue(self.method, converted.value)) IN
            IF inserted.ok THEN Accepted([self EXCEPT !.recipients = inserted.map])
            ELSE Rejected(self, "DuplicateRecipient", id)

\* an add_chat that stores with HashMap::insert, which replaces
add_chat_replacing(self, chat) ==
    LET id == chat.id
        recipient_id == chat.foreign
        converted == ChatTryFrom(chat)
    IN  IF ~MapContains(self.recipients, recipient_id) THEN Rejected(self, "NoRecipient", id)
        ELSE IF ~converted.ok THEN Rejected(self, converted.err, id)
        ELSE Accepted([self EXCEPT !.chats =
                [i \in DOMAIN self.chats \cup {id} |->
                    IF i = id THEN [converted.value EXCEPT !.v = MethodValue(self.method, @)]
                    ELSE self.chats[i]]])

add_chat(self, chat) ==
    LET id == chat.id
        recipient_id == chat.foreign
        converted == ChatTryFrom(chat)
    IN  IF ~MapContains(self.recipients, recipient_id) THEN Rejected(self, "NoRecipient", id)
        ELSE IF ~converted.ok THEN Rejected(self, converted.err, id)
        ELSE IF id \in DOMAIN self.chats THEN Rejected(self, "DuplicateId", id)
        ELSE Accepted([self EXCEPT !.chats =
                [i \in DOMAIN self.chats \cup {id} |->
                    IF i = id THEN [converted.value EXCEPT !.v = MethodValue(self.method, @)]
                    ELSE self.chats[i]]])

\* an add_chat_item that takes the chat with entry(chat_id).or_default()
add_chat_item_or_default(self, chat_item) ==
    LET chat_id == chat_item.foreign
        converted == ChatItemTryFromWith(chat_item, self.recipients, self.calls)
        chats == [i \in DOMAIN self.chats \cup {chat_id} |->
                    IF i \in DOMAIN self.chats THEN self.chats[i]
                    ELSE [recipient |-> NoId, v |-> Unit, items |-> << >>]]
    IN  IF ~converted.ok THEN Rejected([self EXCEPT !.chats = chats], converted.err, chat_id)
        ELSE Accepted([self EXCEPT !.chats =
                [chats EXCEPT ![chat_id].items = Append(@, converted.value)]])

add_chat_item(self, chat_item) ==
    LET chat_id == chat_item.foreign
        converted == ChatItemTryFromWith(chat_item, self.recipients, self.calls)
    IN  IF chat_id \notin DOMAIN self.chats THEN Rejected(self, "NoChatForItem", chat_id)
        ELSE IF ~converted.ok THEN Rejected(self, converted.err, chat_id)
        ELSE Accepted([self EXCEPT !.chats[chat_id].items = Append(@, converted.value)])

add_call(self, call) ==
    LET call_id == call.id
        converted == CallTryFromWith(call, self.recipients, self.calls, self.chats)
    IN  IF ~converted.ok THEN Rejected(self, converted.err, call_id)
        ELSE LET inserted == MapInsert(self.calls, call_id,
                    [converted.value EXCEPT !.v = MethodValue(self.method, @)]) IN
            IF inserted.ok THEN Accepted([self EXCEPT !.calls = inserted.map])
            ELSE Rejected(self, "DuplicateId", call_id)

add_sticker_pack(self, sticker_pack) ==
    LET id == sticker_pack.id
        pack == StickerPackTryFrom(sticker_pack)
    IN  IF id = InvalidPackId THEN Rejected(self, "InvalidId", NoId)
        ELSE IF ~pack.ok THEN Rejected(self, pack.err, id)
        ELSE IF id \in self.sticker_packs THEN Rejected(self, "DuplicateId", id)
        ELSE Accepted([self EXCEPT !.sticker_packs = @ \cup {id}])

add_frame_item(self, item) ==
    CASE item.item = "Account" -> add_account_data(self, item)
      [] item.item = "Recipient" -> add_recipient(self, item)
      [] item.item = "Chat" -> add_chat(self, item)
      [] item.item = "ChatItem" -> add_chat_item(self, item)
      [] item.item = "Call" -> add_call(self, item)
      [] item.item = "StickerPack" -> add_sticker_pack(self, item)

add_frame(self, frame) ==
    IF frame.item = "None" THEN Rejected(self, "EmptyFrame", NoId)
    ELSE add_frame_item(self, frame)

\* ------------------------------------------------------- variable groups
backupVars == << backup_file, partial, frame_result >>
handleVars == << state, lock_owner, disconnects, outliving, awaiting >>
sendVars == << sends, reply, assigned >>
chanVars == << request_chan, response_chan, rx >>
idVars == << workload, backupVars, initial_request_id, request_id, sent_request_ids, sent_responses >>
codecVars == << codec_pending, outgoing_ended, requests_in_flight >>
listenerVars == << listener, callback, in_progress, events >>
taskVars == << task, exit_result, task_output >>

Idle == [pc |-> "idle", tx |-> FALSE, result |-> NoResult]
Returned(r) == [pc |-> "done", tx |-> FALSE, result |-> r]

Init ==
    /\ workload \in Workloads
    /\ state = MaybeStillRunning
    /\ lock_owner = 0
    /\ disconnects = FALSE
    /\ outliving = {}
    /\ awaiting = {}
    /\ sends = [c \in Calls |-> Idle]
    /\ reply = [c \in Calls |-> Empty]
    /\ assigned = [c \in Calls |-> -1]
    /\ request_chan = << >>
    /\ response_chan = << >>
    /\ rx = "open"
    /\ initial_request_id \in IF workload.sends = 0 THEN {0} ELSE InitialRequestIds
    /\ request_id = initial_request_id
    /\ sent_request_ids = << >>
    /\ sent_responses = << >>
    /\ codec_pending = {}
    /\ outgoing_ended = FALSE
    /\ requests_in_flight = {}
    /\ listener \in {NotRunning(l) : l \in {NoListener} \cup Listeners}
    /\ callback = NoCallback
    /\ in_progress = 0
    /\ events = << >>
    /\ responders = << >>
    /\ incoming = << >>
    /\ task = "loop"
    /\ exit_result = "none"
    /\ task_output = "none"
    /\ backup_file = {}
    /\ partial = PartialBackupNew("ValidateOnly")
    /\ frame_result = NoBackupResult

\* ------------------------------------------------------- Chat::send
\* a send that takes its request id before it looks at the headers
SendInvalidHeaderAfterId(c) ==
    /\ c <= workload.sends
    /\ sends[c].pc = "idle"
    /\ sends' = [sends EXCEPT ![c] = Returned(SendErr("InvalidRequest"))]
    /\ request_id' = WrappingAdd(request_id)
    /\ UNCHANGED << handleVars, reply, assigned, chanVars, workload, backupVars, initial_request_id,
                    sent_request_ids, sent_responses, codecVars, listenerVars,
                    responders, incoming, taskVars >>

\* the header conversion of Chat::send fails: the call returns before send_request
SendInvalidHeader(c) ==
    /\ c <= workload.sends
    /\ sends[c].pc = "idle"
    /\ sends' = [sends EXCEPT ![c] = Returned(SendErr("InvalidRequest"))]
    /\ UNCHANGED << handleVars, reply, assigned, chanVars, idVars, codecVars,
                    listenerVars, responders, incoming, taskVars >>

\* the match under the lock at the start of send_request: the error returned,
\* or NoResult when the call goes on with a clone of request_tx
SendRequestLocked(s) ==
    IF s.tag = "MaybeStillRunning" THEN NoResult
    ELSE IF s.tag = "SignaledToEnd" THEN Disconnected("task was already signalled to end")
    ELSE IF s.result = "Ok" THEN Disconnected("task already ended gracefully")
    ELSE SendErrorFromTaskErrorState(s.result)

\* a send_request that keeps the lock it took while it goes on to enqueue its
\* request and to await the reply
SendBeginHoldingLock(c) ==
    /\ c <= workload.sends
    /\ sends[c].pc = "idle"
    /\ lock_owner = 0
    /\ LET r == SendRequestLocked(state) IN
        /\ sends' = [sends EXCEPT ![c] =
                IF r = NoResult THEN [pc |-> "enqueue", tx |-> TRUE, result |-> NoResult]
                ELSE Returned(r)]
        /\ lock_owner' = IF r = NoResult THEN c ELSE 0
    /\ UNCHANGED << state, disconnects, outliving, awaiting, reply, assigned, chanVars,
                    idVars, codecVars, listenerVars, responders, incoming, taskVars >>

\* send_request up to the end of its first lock scope
SendBegin(c) ==
    /\ c <= workload.sends
    /\ sends[c].pc = "idle"
    /\ lock_owner = 0
    /\ LET r == SendRequestLocked(state) IN
        sends' = [sends EXCEPT ![c] =
            IF r = NoResult THEN [pc |-> "enqueue", tx |-> TRUE, result |-> NoResult]
            ELSE Returned(r)]
    /\ UNCHANGED << handleVars, reply, assigned, chanVars, idVars, codecVars,
                    listenerVars, responders, incoming, taskVars >>

\* a send_request that drops its clone of request_tx as soon as the request is
\* in the channel
SendEnqueueDropsSender(c) ==
    /\ sends[c].pc = "enqueue"
    /\ rx = "open"
    /\ Len(request_chan) < RequestChannelCapacity
    /\ request_chan' = Append(request_chan, c)
    /\ sends' = [sends EXCEPT ![c].pc = "await", ![c].tx = FALSE]
    /\ UNCHANGED << handleVars, reply, assigned, response_chan, rx, idVars, codecVars,
                    listenerVars, responders, incoming, taskVars >>

\* tx.send(OutgoingRequest { .. }).await succeeds: the channel has capacity
SendEnqueue(c) ==
    /\ sends[c].pc = "enqueue"
    /\ rx = "open"
    /\ Len(request_chan) < RequestChannelCapacity
    /\ request_chan' = Append(request_chan, c)
    /\ sends' = [sends EXCEPT ![c].pc = "await"]
    /\ UNCHANGED << handleVars, reply, assigned, response_chan, rx, idVars, codecVars,
                    listenerVars, responders, incoming, taskVars >>

\* tx.send(..).await fails: the task dropped its receiver
SendEnqueueFails(c) ==
    /\ sends[c].pc = "enqueue"
    /\ rx = "dropped"
    /\ sends' = [sends EXCEPT ![c].pc = "relock"]
    /\ UNCHANGED << handleVars, reply, assigned, chanVars, idVars, codecVars,
                    listenerVars, responders, incoming, taskVars >>

\* receiver.await completes and send_request returns
SendReceive(c) ==
    /\ sends[c].pc = "await"
    /\ reply[c].st # "empty"
    /\ sends' = [sends EXCEPT ![c] = Returned(SendResultOf(reply[c]))]
    /\ UNCHANGED << handleVars, reply, assigned, chanVars, idVars, codecVars,
                    listenerVars, responders, incoming, taskVars >>

\* finished_state.map_or_else(SendError::from, ..) in send_request
SendErrorFromFinishState(r) ==
    IF r = "Ok" THEN Disconnected("task ended gracefully before sending request")
    ELSE SendErrorFromTaskErrorState(r)

\* the else branch of send_request: state.lock().await, then
\* wait_for_task_to_finish up to its task.await
SendRelock(c) ==
    /\ sends[c].pc = "relock"
    /\ lock_owner = 0
    /\ IF state.tag = "Finished"
         THEN /\ sends' = [sends EXCEPT ![c] = Returned(SendErrorFromFinishState(state.result))]
              /\ UNCHANGED lock_owner
       ELSE IF state.tag = "MaybeStillRunning" /\ task # "finished"
         \* assert!(task.is_finished()) fails: the send call panics
         THEN /\ sends' = [sends EXCEPT ![c] = [pc |-> "panicked", tx |-> FALSE, result |-> NoResult]]
              /\ UNCHANGED lock_owner
       ELSE /\ sends' = [sends EXCEPT ![c].pc = "join"]
            /\ lock_owner' = c
    /\ UNCHANGED << state, disconnects, outliving, awaiting, reply, assigned, chanVars, idVars, codecVars,
                    listenerVars, responders, incoming, taskVars >>

\* task.await completes in wait_for_task_to_finish; the state is recorded and
\* send_request returns, releasing the lock
SendJoin(c) ==
    /\ sends[c].pc = "join"
    /\ task = "finished"
    /\ state' = Finished(task_output)
    /\ lock_owner' = 0
    /\ sends' = [sends EXCEPT ![c] = Returned(SendErrorFromFinishState(task_output))]
    /\ UNCHANGED << disconnects, outliving, awaiting, reply, assigned, chanVars, idVars, codecVars,
                    listenerVars, responders, incoming, taskVars >>

\* ------------------------------------------------------- Chat::disconnect
\* a disconnect that keeps the senders and the state it found
DisconnectStateKept(s) == s

\* a disconnect that leaves its temporary Finished(Ok(())) in place unless it
\* found MaybeStillRunning
DisconnectStatePlaceholder(s) ==
    IF s.tag = "MaybeStillRunning" THEN SignaledToEnd ELSE Finished("Ok")

\* a disconnect that records SignaledToEnd whatever state it found
DisconnectStateAlwaysSignals(s) == SignaledToEnd

\* new_state in Chat::disconnect
DisconnectState(s) ==
    IF s.tag = "MaybeStillRunning" THEN SignaledToEnd ELSE s

Disconnect ==
    /\ lock_owner = 0
    /\ state' = DisconnectState(state)
    /\ disconnects' = TRUE
    /\ outliving' = outliving \cup {k \in 1 .. Len(responders) : responders[k].st = "unused"}
    /\ awaiting' = awaiting \cup {c \in Calls : sends[c].pc = "await" /\ reply[c].st = "empty"}
    /\ UNCHANGED << lock_owner, sendVars, chanVars, idVars, codecVars,
                    listenerVars, responders, incoming, taskVars >>

\* ------------------------------------------------------- Chat::set_listener
SetListener(l) ==
    /\ listener' = SetListenerState(listener, l)
    /\ UNCHANGED << handleVars, sendVars, chanVars, idVars, codecVars, callback,
                    in_progress, events, responders, incoming, taskVars >>

\* ------------------------------------------------------- Responder
\* after_finished records, while a send_response call is executing, whether it
\* was made after a listener was invoked with Finished
NewResponder(id) ==
    [id |-> id, st |-> "unused", status |-> 0, result |-> NoResult,
     after_finished |-> FALSE]

FinishedCount == Cardinality({i \in 1 .. Len(events) : events[i].ev = "Finished"})

\* tx.upgrade(): Some iff a strong sender exists
Upgrade(strong) == strong > 0

\* a send that succeeds whether or not anything receives
ChannelSendAlways(receiver) == TRUE

\* UnboundedSender::send: Ok iff the receiver has not been dropped
ChannelSend(receiver) == receiver = "open"

\* Responder::send_response(status) up to tx.upgrade()
SendResponseUpgrade(k, status) ==
    /\ k \in 1 .. Len(responders)
    /\ responders[k].st = "unused"
    /\ responders' = [responders EXCEPT ![k] =
        IF Upgrade(ResponseSenders)
            THEN [@ EXCEPT !.st = "upgraded", !.status = status,
                           !.after_finished = (FinishedCount > 0)]
        ELSE [@ EXCEPT !.st = "used", !.status = status,
                       !.result = Disconnected("task exited without receiving response")]]
    /\ UNCHANGED << handleVars, sendVars, chanVars, idVars, codecVars,
                    listenerVars, incoming, taskVars >>

\* tx.send(OutgoingResponse { id, status }) on the upgraded sender, which is
\* then dropped
SendResponseSend(k) ==
    /\ k \in 1 .. Len(responders)
    /\ responders[k].st = "upgraded"
    /\ IF ChannelSend(rx)
         THEN /\ response_chan' = Append(response_chan,
                    [id |-> responders[k].id, status |-> responders[k].status, k |-> k])
              /\ responders' = [responders EXCEPT ![k] =
                    [@ EXCEPT !.st = "used", !.result = Ok(@.id),
                              !.after_finished = FALSE]]
       ELSE /\ responders' = [responders EXCEPT ![k] =
                    [@ EXCEPT !.st = "used",
                              !.result = Disconnected("task exited without receiving response"),
                              !.after_finished = FALSE]]
            /\ UNCHANGED response_chan
    /\ UNCHANGED << handleVars, sendVars, request_chan, rx, idVars, codecVars,
                    listenerVars, incoming, taskVars >>

\* ------------------------------------------------------- ListenerState::send_event
\* a task that goes back to its loop after the final send_event
AfterDispatchKeepLooping(at) ==
    CASE at = "dispatch" -> "loop"
      [] at = "final" -> "loop"
      [] at = "unwind" -> "unwound"
      [] OTHER -> at

\* a task whose process aborts when the guard's callback ends
AfterDispatchAbortOnUnwind(at) ==
    CASE at = "dispatch" -> "loop"
      [] at = "final" -> "exiting"
      [] at = "unwind" -> "aborted"

\* where spawned_task_body goes on after a send_event / send_event_blocking call:
\* back to the loop, to its end, or on with the unwinding
AfterDispatch(at) ==
    CASE at = "dispatch" -> "loop"
      [] at = "final" -> "exiting"
      [] at = "unwind" -> "unwound"
      [] OTHER -> at

\* a dispatch that invokes a copy of the installed callback on a worker and does
\* not wait for it, leaving the slot as it is
BeginSendEventDetached(ev, id, result, at) ==
    /\ UNCHANGED listener
    /\ IF listener.cb # NoListener
         THEN /\ callback' = [phase |-> "running", taken |-> listener.cb, returned |-> NoListener]
              /\ in_progress' = in_progress + 1
              /\ events' = Append(events, ListenerEvent(ev, id, result))
              /\ responders' = IF ev = "ReceivedMessage"
                                 THEN Append(responders, NewResponder(id))
                                 ELSE responders
       ELSE UNCHANGED << callback, in_progress, events, responders >>
    /\ task' = AfterDispatch(at)

\* a dispatch that makes its event, and with it the Responder, before it looks
\* at the slot
BeginSendEventEager(ev, id, result, at) ==
    LET t == TakeListener(listener) IN
    /\ listener' = t.slot
    /\ responders' = IF ev = "ReceivedMessage"
                       THEN Append(responders, NewResponder(id))
                       ELSE responders
    /\ IF t.go = "call"
         THEN /\ callback' = [phase |-> "running", taken |-> t.taken, returned |-> NoListener]
              /\ in_progress' = in_progress + 1
              /\ events' = Append(events, ListenerEvent(ev, id, result))
              /\ task' = at
       ELSE /\ UNCHANGED << callback, in_progress, events >>
            /\ task' = IF t.go = "return" \/ at = "unwind" THEN AfterDispatch(at)
                       ELSE IF at = "dispatch" THEN "aborted"
                       ELSE "unwound"

\* send_event (at "dispatch" and "final") and send_event_blocking (at "unwind")
\* up to the invocation of the callback. make_event runs only when a listener
\* was taken. Finding the slot Running is unreachable!() in send_event, which
\* panics with the slot's mutex held, and is logged by send_event_blocking.
BeginSendEvent(ev, id, result, at) ==
    LET t == TakeListener(listener) IN
    /\ listener' = t.slot
    /\ IF t.go = "call"
         THEN /\ callback' = [phase |-> "running", taken |-> t.taken, returned |-> NoListener]
              /\ in_progress' = in_progress + 1
              /\ events' = Append(events, ListenerEvent(ev, id, result))
              /\ responders' = IF ev = "ReceivedMessage"
                                 THEN Append(responders, NewResponder(id))
                                 ELSE responders
              /\ task' = at
       ELSE /\ UNCHANGED << callback, in_progress, events, responders >>
            /\ task' = IF t.go = "return" \/ at = "unwind" THEN AfterDispatch(at)
                       ELSE IF at = "dispatch" THEN "aborted"
                       ELSE "unwound"

\* the callback returns
CallbackReturns ==
    /\ callback.phase = "running"
    /\ callback' = [callback EXCEPT !.phase = "returned", !.returned = callback.taken]
    /\ in_progress' = in_progress - 1
    /\ UNCHANGED << handleVars, sendVars, chanVars, idVars, codecVars, listener,
                    events, responders, incoming, taskVars >>

\* the callback panics: spawn_blocking's JoinError, or catch_unwind's Err
CallbackPanics ==
    /\ callback.phase = "running"
    /\ callback' = [callback EXCEPT !.phase = "returned", !.returned = NoListener]
    /\ in_progress' = in_progress - 1
    /\ UNCHANGED << handleVars, sendVars, chanVars, idVars, codecVars, listener,
                    events, responders, incoming, taskVars >>

\* the second lock of send_event / send_event_blocking
FinishSendEvent ==
    /\ callback.phase = "returned"
    /\ callback' = NoCallback
    /\ IF listener.st = "NotRunning"
         \* unreachable!("listener was running")
         THEN /\ task' = IF task = "final" THEN "unwound" ELSE "aborted"
              /\ UNCHANGED listener
       ELSE /\ listener' = PutBackListener(listener, callback.returned)
            /\ task' = AfterDispatch(task)
    /\ UNCHANGED << handleVars, sendVars, chanVars, idVars, codecVars, in_progress,
                    events, responders, incoming, exit_result, task_output >>

\* ------------------------------------------------------- the outgoing stream
RequestMeta(id, c) == [kind |-> "SentRequest", id |-> id, owner |-> c]
ResponseMeta(id, k) == [kind |-> "ResponseToIncoming", id |-> id, owner |-> k]

\* the codec polls the outgoing stream, whose request_rx half yields a request:
\* the map closure in Chat::new_inner assigns the id and make_message encodes it
PullRequest ==
    /\ task = "loop"
    /\ request_chan # << >>
    /\ LET c == Head(request_chan) IN
        /\ assigned' = [assigned EXCEPT ![c] = request_id]
        /\ codec_pending' = codec_pending \cup {RequestMeta(request_id, c)}
    /\ sent_request_ids' = Append(sent_request_ids, request_id)
    /\ request_id' = WrappingAdd(request_id)
    /\ request_chan' = Tail(request_chan)
    /\ UNCHANGED << handleVars, sends, reply, response_chan, rx, workload, backupVars, initial_request_id,
                    sent_responses, outgoing_ended, requests_in_flight, listenerVars,
                    responders, incoming, taskVars >>

\* a response channel that yields the newest response first
PullResponseNewest ==
    /\ task = "loop"
    /\ response_chan # << >>
    /\ LET r == response_chan[Len(response_chan)] IN
        /\ codec_pending' = codec_pending \cup {ResponseMeta(r.id, r.k)}
        /\ sent_responses' = Append(sent_responses, [id |-> r.id, status |-> r.status])
    /\ response_chan' = SubSeq(response_chan, 1, Len(response_chan) - 1)
    /\ UNCHANGED << handleVars, sendVars, request_chan, rx, workload, backupVars, initial_request_id, request_id,
                    sent_request_ids, outgoing_ended, requests_in_flight, listenerVars,
                    responders, incoming, taskVars >>

\* the response_rx half yields a response: response_for_status encodes it
PullResponse ==
    /\ task = "loop"
    /\ response_chan # << >>
    /\ LET r == Head(response_chan) IN
        /\ codec_pending' = codec_pending \cup {ResponseMeta(r.id, r.k)}
        /\ sent_responses' = Append(sent_responses, [id |-> r.id, status |-> r.status])
    /\ response_chan' = Tail(response_chan)
    /\ UNCHANGED << handleVars, sendVars, request_chan, rx, workload, backupVars, initial_request_id, request_id,
                    sent_request_ids, outgoing_ended, requests_in_flight, listenerVars,
                    responders, incoming, taskVars >>

\* both halves of the merged stream have ended: every sender is gone and the
\* buffers are drained
OutgoingStreamEnded ==
    /\ RequestSenders = 0
    /\ request_chan = << >>
    /\ ResponseSenders = 0
    /\ response_chan = << >>

OutgoingEnds ==
    /\ task = "loop"
    /\ ~outgoing_ended
    /\ OutgoingStreamEnded
    /\ outgoing_ended' = TRUE
    /\ UNCHANGED << handleVars, sendVars, chanVars, idVars, codec_pending,
                    requests_in_flight, listenerVars, responders, incoming, taskVars >>

\* ------------------------------------------------------- handle_one_event
\* a finish_send that finds the oneshot by the id the request was encoded with,
\* whether or not the request was recorded as sent
FinishSendByAssignedId(t, r, id, result) ==
    [c \in Calls |-> IF assigned[c] = id /\ r[c].st = "empty" THEN result ELSE r[c]]

\* InFlightRequests::finish_send: the oneshots after sender.send(result)
FinishSend(t, r, id, result) ==
    [c \in Calls |-> IF c \in InFlightOwners(t, id) THEN result ELSE r[c]]

\* the oneshot senders dropped together with the value holding them
DropSenders(r, calls) ==
    [c \in Calls |-> IF c \in calls /\ r[c].st = "empty" THEN Dropped ELSE r[c]]

\* The task panics inside the loop: the scope guard set up by guard_on_unwind
\* runs send_event_blocking with Finished(Err(FinishError::Unknown))
PanicUnwind == BeginSendEvent("Finished", -1, "Unknown", "unwind")

\* a task that ends without telling the listener
BreakLoopSilent(result) ==
    /\ exit_result' = result
    /\ task' = "exiting"
    /\ UNCHANGED << listenerVars, responders >>

\* the loop breaks with `result`: the guard is disarmed and the final
\* send_event is called with Finished(result.map_err(FinishError::Error))
BreakLoop(result) ==
    /\ exit_result' = result
    /\ BeginSendEvent("Finished", -1, result, "final")

\* MessageEvent::SentPing | MessageEvent::ReceivedPingPong
HandlePing ==
    /\ task = "loop"
    /\ UNCHANGED vars

\* MessageEvent::SentMessage(meta): record_send for a request (its assert
\* fails on an id that is already in the table), nothing for a response
HandleSentMessage(meta) ==
    /\ task = "loop"
    /\ meta \in codec_pending
    /\ codec_pending' = codec_pending \ {meta}
    /\ IF meta.kind = "SentRequest"
         THEN /\ requests_in_flight' = InFlightInsert(requests_in_flight, meta.id, meta.owner)
              /\ IF meta.id \in InFlightIds(requests_in_flight)
                   THEN /\ reply' = DropSenders(reply, InFlightOwners(requests_in_flight, meta.id))
                        /\ PanicUnwind
                        /\ UNCHANGED << exit_result >>
                 ELSE UNCHANGED << reply, listenerVars, responders, task, exit_result >>
       ELSE UNCHANGED << requests_in_flight, reply, listenerVars, responders, task, exit_result >>
    /\ UNCHANGED << handleVars, sends, assigned, chanVars, idVars, outgoing_ended,
                    incoming, task_output >>

\* MessageEvent::SendFailed(meta, send_error)
HandleSendFailed(meta, e) ==
    /\ task = "loop"
    /\ e \in workload.faults
    /\ meta \in codec_pending
    /\ codec_pending' = codec_pending \ {meta}
    /\ reply' = IF meta.kind = "SentRequest"
                  THEN [reply EXCEPT ![meta.owner] = SentStreamSendFailed(e)]
                  ELSE reply
    /\ BreakLoop(TaskExitStatusFor(e))
    /\ UNCHANGED << handleVars, sends, assigned, chanVars, idVars, outgoing_ended,
                    requests_in_flight, incoming, task_output >>

\* MessageEvent::ReceivedMessage(message)
HandleReceivedMessage(m) ==
    /\ task = "loop"
    /\ LET msg == ChatMessageTryFrom(m) IN
        /\ msg.kind = "Request" => Len(incoming) < workload.incoming
        /\ IF msg.kind = "Request"
             THEN /\ incoming' = Append(incoming, msg.id)
                  /\ BeginSendEvent("ReceivedMessage", msg.id, "", "dispatch")
                  /\ UNCHANGED << requests_in_flight, reply >>
           ELSE IF msg.kind = "Response"
             THEN /\ requests_in_flight' = InFlightRemove(requests_in_flight, msg.id)
                  /\ reply' = FinishSend(requests_in_flight, reply, msg.id, SentOk(msg.id))
                  /\ UNCHANGED << incoming, listenerVars, responders, task >>
           ELSE IF msg.err = "InvalidResponse"
             THEN /\ requests_in_flight' = InFlightRemove(requests_in_flight, msg.id)
                  /\ reply' = FinishSend(requests_in_flight, reply, msg.id, SentInvalidResponse)
                  /\ UNCHANGED << incoming, listenerVars, responders, task >>
           ELSE UNCHANGED << requests_in_flight, reply, incoming, listenerVars, responders, task >>
    /\ UNCHANGED << handleVars, sends, assigned, chanVars, idVars, codec_pending,
                    outgoing_ended, exit_result, task_output >>

\* Outcome::Finished(Ok(())) and Outcome::Finished(Err(err)) from the codec
HandleFinished(r) ==
    /\ task = "loop"
    /\ r = "Ok" \/ r \in workload.faults
    /\ BreakLoop(r)
    /\ UNCHANGED << handleVars, sendVars, chanVars, idVars, codecVars, incoming, task_output >>

\* the codec panics inside handle_next_event
HandlePanic ==
    /\ task = "loop"
    /\ PanicUnwind
    /\ UNCHANGED << handleVars, sendVars, chanVars, idVars, codecVars, incoming,
                    exit_result, task_output >>

\* ------------------------------------------------------- the end of the task
\* spawned_task_body returns or finishes unwinding: its locals are dropped, the
\* connection with both receivers, the in-flight table and what the codec holds
TaskDropsConnection ==
    /\ task \in {"exiting", "unwound"}
    /\ task' = "dropped"
    /\ task_output' = IF task = "unwound" THEN "Panic" ELSE TaskResultOf(exit_result)
    /\ rx' = "dropped"
    /\ request_chan' = << >>
    /\ response_chan' = << >>
    /\ codec_pending' = {}
    /\ requests_in_flight' = {}
    /\ reply' = DropSenders(reply,
            Range(request_chan)
            \cup {m.owner : m \in {x \in codec_pending : x.kind = "SentRequest"}}
            \cup {e.call : e \in requests_in_flight})
    /\ UNCHANGED << handleVars, sends, assigned, idVars, outgoing_ended, listenerVars,
                    responders, incoming, exit_result >>

\* the runtime marks the task complete: JoinHandle::is_finished() turns true
TaskCompletes ==
    /\ task = "dropped"
    /\ task' = "finished"
    /\ UNCHANGED << handleVars, sendVars, chanVars, idVars, codecVars, listenerVars,
                    responders, incoming, exit_result, task_output >>

\* ------------------------------------------------------- specification
Next ==
    \/ \E c \in Calls : SendInvalidHeader(c)
    \/ \E c \in Calls : SendBegin(c)
    \/ \E c \in Calls : SendEnqueue(c)
    \/ \E c \in Calls : SendEnqueueFails(c)
    \/ \E c \in Calls : SendReceive(c)
    \/ \E c \in Calls : SendRelock(c)
    \/ \E c \in Calls : SendJoin(c)
    \/ Disconnect
    \/ \E l \in {NoListener} \cup Listeners : SetListener(l)
    \/ \E k \in 1 .. MaxIncoming, s \in Statuses : SendResponseUpgrade(k, s)
    \/ \E k \in 1 .. MaxIncoming : SendResponseSend(k)
    \/ CallbackReturns
    \/ CallbackPanics
    \/ FinishSendEvent
    \/ PullRequest
    \/ PullResponse
    \/ OutgoingEnds
    \/ HandlePing
    \/ \E meta \in codec_pending : HandleSentMessage(meta)
    \/ \E meta \in codec_pending, e \in TungsteniteSendErrors : HandleSendFailed(meta, e)
    \/ \E m \in Frames : HandleReceivedMessage(m)
    \/ \E r \in {"Ok"} \cup NextEventErrors : HandleFinished(r)
    \/ HandlePanic
    \/ TaskDropsConnection
    \/ TaskCompletes

Spec == Init /\ [][Next]_vars

\* the runtime polls a send call again once what it awaits is ready: the closed
\* channel, the oneshot, the lock, the JoinHandle
SendFairness ==
    \A c \in Calls :
        /\ WF_vars(SendEnqueueFails(c))
        /\ WF_vars(SendReceive(c))
        /\ WF_vars(SendRelock(c))
        /\ WF_vars(SendJoin(c))

\* a task that left its loop without a callback to wait for runs to its end,
\* and the runtime marks it complete
TaskFairness ==
    /\ WF_vars(TaskDropsConnection)
    /\ WF_vars(TaskCompletes)

\* a connection with one send call and one request of the peer's
FairInit ==
    /\ Init
    /\ workload = [sends |-> MaxSends - 1, incoming |-> MaxIncoming - 1, faults |-> FewFaults]

FairSpec == FairInit /\ [][Next]_vars /\ SendFairness /\ TaskFairness

\* ------------------------------------------------------- PartialBackup::add_frame
\* the frames of a backup file are added one after the other to a PartialBackup
\* made by new_validator or new_store; no connection is in use meanwhile
chatVars ==
    << workload, state, lock_owner, disconnects, outliving, awaiting, sends, reply, assigned,
       request_chan, response_chan, rx, initial_request_id, request_id, sent_request_ids,
       sent_responses, codec_pending, outgoing_ended, requests_in_flight, listener,
       callback, in_progress, events, responders, incoming, task, exit_result,
       task_output >>

BackupInit ==
    /\ backup_file \in BackupFiles
    /\ partial \in {PartialBackupNew(method) : method \in Methods}
    /\ frame_result = NoBackupResult
    /\ workload = [sends |-> 0, incoming |-> 0, faults |-> {}]
    /\ state = MaybeStillRunning
    /\ lock_owner = 0
    /\ disconnects = FALSE
    /\ outliving = {}
    /\ awaiting = {}
    /\ sends = [c \in Calls |-> Idle]
    /\ reply = [c \in Calls |-> Empty]
    /\ assigned = [c \in Calls |-> -1]
    /\ request_chan = << >>
    /\ response_chan = << >>
    /\ rx = "open"
    /\ initial_request_id = 0
    /\ request_id = 0
    /\ sent_request_ids = << >>
    /\ sent_responses = << >>
    /\ codec_pending = {}
    /\ outgoing_ended = FALSE
    /\ requests_in_flight = {}
    /\ listener = NotRunning(NoListener)
    /\ callback = NoCallback
    /\ in_progress = 0
    /\ events = << >>
    /\ responders = << >>
    /\ incoming = << >>
    /\ task = "loop"
    /\ exit_result = "none"
    /\ task_output = "none"

\* one PartialBackup::add_frame call
AddFrame(frame) ==
    /\ frame.item \in backup_file
    /\ frame.item = "ChatItem" /\ frame.foreign \in DOMAIN partial.chats =>
            Len(partial.chats[frame.foreign].items) < MaxItems
    /\ LET added == add_frame(partial, frame) IN
        /\ partial' = added.self
        /\ frame_result' = added.result
    /\ UNCHANGED << backup_file, chatVars >>

BackupNext == \E frame \in BackupFrames : AddFrame(frame)

BackupSpec == BackupInit /\ [][BackupNext]_vars

\* ------------------------------------------------------- a long-lived connection
\* the application calls Chat::send again after a call returned a response; the
\* call's slot is taken by the next call, with a fresh oneshot channel
SendAgain(c) ==
    /\ c <= workload.sends
    /\ sends[c].pc = "done"
    /\ sends[c].result.kind = "Ok"
    /\ Len(sent_request_ids) <= IdMod
    /\ sends' = [sends EXCEPT ![c] = Idle]
    /\ reply' = [reply EXCEPT ![c] = Empty]
    /\ assigned' = [assigned EXCEPT ![c] = -1]
    /\ UNCHANGED << handleVars, chanVars, idVars, codecVars, listenerVars,
                    responders, incoming, taskVars >>

\* a connection without a listener on which only requests are sent
LongLivedInit ==
    /\ Init
    /\ workload = [sends |-> MaxSends, incoming |-> 0, faults |-> FewFaults]
    /\ listener = NotRunning(NoListener)

LongLivedNext ==
    \/ \E c \in Calls : SendBegin(c)
    \/ \E c \in Calls : SendEnqueue(c)
    \/ \E c \in Calls : SendReceive(c)
    \/ \E c \in Calls : SendAgain(c)
    \/ PullRequest
    \/ \E meta \in codec_pending : HandleSentMessage(meta)
    \/ \E m \in Frames : HandleReceivedMessage(m)
    \/ TaskDropsConnection
    \/ TaskCompletes

LongLivedSpec == LongLivedInit /\ [][LongLivedNext]_vars

\* ------------------------------------------------------- properties
ListenerInstalled == listener.st = "NotRunning" /\ listener.cb # NoListener
\* spawned_task_body has left its loop
Exited == task \notin {"loop", "dispatch"}
FinishedEvent(result) == ListenerEvent("Finished", -1, result)

\* C1: the k-th outbound request the task takes from the request channel is
\* encoded with id (initial_request_id + k) mod 2^IdBits, k counted from 0,
\* whatever happened to the requests before it.
C1_RequestIdsContiguous ==
    \A k \in 1 .. Len(sent_request_ids) :
        sent_request_ids[k] = (initial_request_id + (k - 1)) % IdMod

\* two requests were encoded starting from the largest id: the second has id 0
C1_Witness ==
    /\ initial_request_id = IdMod - 1
    /\ Len(sent_request_ids) >= 2
    /\ sent_request_ids[1] = IdMod - 1
    /\ sent_request_ids[2] = 0

\* C2: a send that returns Ok returns the response whose id is the id its own
\* request was encoded with, every other send that returns returns an error,
\* and handling one received message completes at most one send call.
C2_SendGetsOwnResponse ==
    /\ [](\A c \in Calls : sends[c].pc = "done" =>
            \/ /\ sends[c].result.kind = "Ok"
               /\ assigned[c] # -1
               /\ sends[c].result.id = assigned[c]
            \/ sends[c].result.kind \in
                {"Disconnected", "Io", "MessageTooLarge", "Protocol",
                 "InvalidResponse", "InvalidRequest"})
    /\ [][Cardinality({c \in Calls : reply[c].st = "empty" /\ reply'[c].kind = "Ok"}) <= 1]_vars

\* the second call got its response while the first, whose request was encoded
\* before it, is still in flight: the responses arrived out of order
C2_Witness ==
    /\ MaxSends >= 2
    /\ sends[2].pc = "done"
    /\ sends[2].result.kind = "Ok"
    /\ assigned[1] = initial_request_id
    /\ sends[1].pc = "await"
    /\ 1 \in {e.call : e \in requests_in_flight}

\* a send call starts in this step
SendStarts(c) == sends[c].pc = "idle" /\ sends'[c].pc # "idle"

\* C3, as claimed: once a disconnect() has completed, every send call made
\* afterwards returns Disconnected, whatever the request.
C3_Original ==
    [][\A c \in Calls : disconnects /\ SendStarts(c) =>
            sends'[c].pc = "done" /\ sends'[c].result.kind = "Disconnected"]_vars

\* C3, amended: once a disconnect() has completed, every send call made
\* afterwards returns at once; it returns Disconnected when the headers of its
\* request can be rendered and InvalidRequest when they cannot.
C3_SendAfterDisconnect ==
    [][\A c \in Calls : disconnects /\ SendStarts(c) =>
            /\ sends'[c].pc = "done"
            /\ SendBegin(c) => sends'[c].result.kind = "Disconnected"
            /\ SendInvalidHeader(c) => sends'[c].result.kind = "InvalidRequest"]_vars

\* a send found the state SignaledToEnd, which only a disconnect() sets
C3_Witness ==
    /\ disconnects
    /\ \E c \in Calls : sends[c].result = Disconnected("task was already signalled to end")

\* C4, as claimed: when the task has ended, a listener was invoked with
\* Finished exactly once.
C4_Original ==
    task \in {"dropped", "finished"} => FinishedCount = 1

\* C4, amended: the task dispatches Finished exactly once, in the step in which
\* it leaves its loop and never before or after; a listener is invoked with it
\* iff one is installed in the slot at that moment.
C4_FinishedDispatchedOnce ==
    [][/\ Exited => Exited' /\ FinishedCount' = FinishedCount
       /\ ~Exited' => FinishedCount' = 0
       /\ ~Exited /\ Exited' =>
            FinishedCount' = IF ListenerInstalled THEN 1 ELSE 0]_vars

\* the task ended and a listener was invoked with Finished
C4_Witness ==
    /\ task = "finished"
    /\ FinishedCount = 1

\* C5: at most one Finished event is delivered on a connection: never both the
\* scope guard's Finished(Err(Unknown)) and the final Finished(result).
C5_AtMostOneFinished ==
    /\ FinishedCount <= 1
    /\ \A i \in 1 .. Len(events) : events[i].ev = "Finished" =>
            (events[i].result = "Unknown") = (exit_result = "none")

\* the task panicked, the guard's event was delivered and the task ended
C5_Witness ==
    /\ task = "finished"
    /\ task_output = "Panic"
    /\ FinishedEvent("Unknown") \in Range(events)

\* C6: at most one listener callback is executing at any time.
C6_OneCallbackAtATime == in_progress <= 1

\* a callback is executing on the panic path and set_listener was called
\* meanwhile
C6_Witness ==
    /\ in_progress = 1
    /\ task = "unwind"
    /\ listener.st = "ReplacedWhileRunning"

\* a send_response call returns in this step
SendResponseReturns(k) == responders[k].st # "used" /\ responders'[k].st = "used"

\* C7: a send_response made on a Responder that was unused when a disconnect()
\* completed returns Disconnected and enqueues no response.
C7_Original ==
    [][\A k \in outliving :
        SendResponseReturns(k) =>
            /\ responders'[k].result.kind = "Disconnected"
            /\ response_chan' = response_chan]_vars

\* C8, as claimed: with no disconnect() call, after the peer closed the
\* connection and a listener received Finished(Ok(())), a send_response made
\* from then on returns Disconnected.
C8_Original ==
    [][\A k \in 1 .. Len(responders) :
        /\ SendResponseReturns(k)
        /\ ~disconnects
        /\ FinishedEvent("Ok") \in Range(events)
        /\ responders[k].st = "upgraded" => responders[k].after_finished
        => responders'[k].result.kind = "Disconnected"]_vars

\* C8, amended: when the codec reports Finished(Ok(())) a listener installed at
\* that moment is invoked with Finished(Ok(())), and a send_response that
\* returns after the task has dropped its connection returns Disconnected and
\* enqueues nothing.
C8_SendResponseAfterTaskEnded ==
    [][/\ task = "loop" /\ exit_result' = "Ok" /\ ListenerInstalled =>
            events' = Append(events, FinishedEvent("Ok"))
       /\ \A k \in 1 .. Len(responders) :
            SendResponseReturns(k) /\ rx = "dropped" =>
                /\ responders'[k].result.kind = "Disconnected"
                /\ response_chan' = response_chan]_vars

\* no disconnect() was called, the listener got Finished(Ok(())), the task
\* ended, and a Responder handed out earlier was then refused
C8_Witness ==
    /\ ~disconnects
    /\ state.tag = "MaybeStillRunning"
    /\ FinishedEvent("Ok") \in Range(events)
    /\ rx = "dropped"
    /\ \E k \in 1 .. Len(responders) :
        responders[k].st = "used" /\ responders[k].result.kind = "Disconnected"

\* C9: a second disconnect() changes nothing: applying disconnect's state
\* change twice gives the state that applying it once gives (the senders are
\* part of the state), and a disconnect() call touches neither the listener,
\* its events, the channels' contents nor the task.
C9_DisconnectIdempotent ==
    /\ [](DisconnectState(DisconnectState(state)) = DisconnectState(state))
    /\ [][Disconnect =>
            /\ DisconnectState(state') = state'
            /\ UNCHANGED << listenerVars, chanVars, responders, taskVars >>]_vars

\* disconnect() was called on a handle whose state a send had already set to
\* Finished with an error
C9_Witness ==
    /\ disconnects
    /\ state.tag = "Finished"
    /\ state.result \notin {"Ok", "none"}

\* C10: once disconnect() has completed, while no send call holds a clone of
\* request_tx and no send_response call is executing, no sender of either
\* outbound channel is left, however many unused Responders exist: the
\* outgoing stream ends as soon as its buffers are drained.
C10_DisconnectClosesOutbound ==
    /\ disconnects
    /\ \A c \in Calls : ~sends[c].tx
    /\ \A k \in 1 .. Len(responders) : responders[k].st # "upgraded"
    => /\ RequestSenders = 0
       /\ ResponseSenders = 0
       /\ request_chan = << >> /\ response_chan = << >> => OutgoingStreamEnded

\* the codec saw the outgoing stream end after a disconnect() while the task
\* is still in its loop and every Responder handed out is still unused
C10_Witness ==
    /\ disconnects
    /\ outgoing_ended
    /\ task = "loop"
    /\ Len(responders) = MaxIncoming
    /\ \A k \in 1 .. Len(responders) : responders[k].st = "unused"


\* C11: when the codec reports SendFailed(SentRequest, Io) the task records the
\* error for the send call that owns the request, leaves its loop with
\* Err(SendIo) and dispatches Finished(Err(Error(SendIo))), which the installed
\* listener receives (no callback runs when the slot holds none); the owner's
\* send returns Err(Io); and a task that has left its loop handles no further
\* codec event: nothing more is received, encoded or recorded as in flight.
C11_SendFailureEndsTask ==
    /\ [][\A meta \in codec_pending :
            HandleSendFailed(meta, "Io") /\ meta.kind = "SentRequest" =>
                /\ reply'[meta.owner] = SentStreamSendFailed("Io")
                /\ exit_result' = "SendIo"
                /\ Exited'
                /\ events' = IF ListenerInstalled
                               THEN Append(events, FinishedEvent("SendIo"))
                               ELSE events]_vars
    /\ [](\A c \in Calls :
            sends[c].pc = "done" /\ reply[c] = SentStreamSendFailed("Io") =>
                sends[c].result = SendErr("Io"))
    /\ [][Exited =>
            /\ Exited'
            /\ incoming' = incoming
            /\ sent_request_ids' = sent_request_ids
            /\ sent_responses' = sent_responses
            /\ requests_in_flight' \in {requests_in_flight, {}}
            /\ codec_pending' \in {codec_pending, {}}]_vars

\* the owner's send returned Err(Io), the listener got Finished with SendIo and
\* the task ended with requests received before the failure
C11_Witness ==
    /\ exit_result = "SendIo"
    /\ \E c \in Calls : sends[c].pc = "done" /\ sends[c].result = SendErr("Io")
    /\ FinishedEvent("SendIo") \in Range(events)
    /\ task = "finished"


\* the ids of the ReceivedMessage events listeners were invoked with, in order
ReceivedIds ==
    LET r == SelectSeq(events, LAMBDA e : e.ev = "ReceivedMessage")
    IN [i \in 1 .. Len(r) |-> r[i].id]

RECURSIVE IsSubsequence(_, _)
\* a is b with some elements left out
IsSubsequence(a, b) ==
    IF a = << >> THEN TRUE
    ELSE IF b = << >> THEN FALSE
    ELSE IF Head(a) = Head(b) THEN IsSubsequence(Tail(a), Tail(b))
    ELSE IsSubsequence(a, Tail(b))

\* C12: the ReceivedMessage events are the incoming requests in the order the
\* codec received them, none twice; a request that arrives while a listener is
\* installed is delivered at once, so with a listener installed throughout
\* every request is delivered; and no callback is executing when the callback
\* for a request starts.
C12_IncomingInOrder ==
    /\ [](IsSubsequence(ReceivedIds, incoming))
    /\ [][Len(incoming') > Len(incoming) =>
            /\ incoming' = Append(incoming, incoming'[Len(incoming')])
            /\ in_progress = 0
            /\ ListenerInstalled =>
                /\ events' = Append(events,
                        ListenerEvent("ReceivedMessage", incoming'[Len(incoming')], ""))
                /\ in_progress' = 1]_vars

\* every request the peer could send was received and delivered, in order, and
\* the last callback has returned
C12_Witness ==
    /\ Len(incoming) = MaxIncoming
    /\ ReceivedIds = incoming
    /\ in_progress = 0
    /\ task = "loop"


\* a frame that is text, does not decode, has no or an unknown type, lacks the
\* payload its type names or carries the other one, or whose payload has no id
InvalidFrame(m) ==
    \/ m.text
    \/ ~m.decodes
    \/ m.type \notin {"Request", "Response"}
    \/ m.type = "Request" /\ (~m.request.present \/ m.response.present \/ ~m.request.has_id)
    \/ m.type = "Response" /\ (~m.response.present \/ m.request.present \/ ~m.response.has_id)

\* a well-formed Response envelope whose id is not in the in-flight table
StrayResponse(m) ==
    /\ ~InvalidFrame(m)
    /\ m.type = "Response"
    /\ m.response.id \notin InFlightIds(requests_in_flight)

\* C13: while the task is in its loop it can take an invalid frame or a
\* Response whose id is not in flight, and taking it changes nothing: no
\* listener event, no pending send, no in-flight entry, and the task stays in
\* its loop, where it goes on to take whatever the codec reports next.
C13_InvalidFrameIgnored ==
    \A m \in Frames :
        (InvalidFrame(m) \/ StrayResponse(m)) /\ task = "loop" =>
            /\ ENABLED HandleReceivedMessage(m)
            /\ ~ENABLED (HandleReceivedMessage(m) /\ vars' # vars)

\* a send is waiting for its response, a request of the peer's can still be
\* delivered to the installed listener, and the peer sends a Response with an
\* id that is not in flight and an envelope without ids
C13_Witness ==
    /\ task = "loop"
    /\ requests_in_flight # {}
    /\ \E c \in Calls : sends[c].pc = "await" /\ reply[c].st = "empty"
    /\ ListenerInstalled
    /\ Len(incoming) < workload.incoming
    /\ \E m \in Frames : StrayResponse(m) /\ ENABLED HandleReceivedMessage(m)
    /\ \E m \in Frames : InvalidFrame(m) /\ m.response.present /\ ENABLED HandleReceivedMessage(m)


\* the callback the task was waiting for panicked, and send_event or
\* send_event_blocking takes the slot's lock again in this step
EndsAfterPanic ==
    /\ callback.phase = "returned"
    /\ callback.returned = NoListener
    /\ callback'.phase = "none"

\* C14: when a listener callback panics on a ReceivedMessage event the task
\* goes back to its loop and no event is emitted; the slot is left holding no
\* listener, or the one a set_listener call put there meanwhile, so the
\* callback that panicked is gone; Finished(Err(Unknown)) is only ever emitted
\* by a task that panicked itself; and a task that leaves its loop normally
\* while the slot holds no listener emits nothing.
C14_ListenerPanicOnReceive ==
    /\ [][task = "dispatch" /\ EndsAfterPanic =>
            /\ task' = "loop"
            /\ events' = events
            /\ listener' = IF listener.st = "ReplacedWhileRunning"
                             THEN NotRunning(listener.cb)
                             ELSE NotRunning(NoListener)]_vars
    /\ [](FinishedEvent("Unknown") \in Range(events) =>
            exit_result = "none" /\ task \in {"unwind", "unwound", "dropped", "finished"})
    /\ [][task = "loop" /\ exit_result' # "none" /\ listener = NotRunning(NoListener) =>
            events' = events /\ task' = "exiting"]_vars

\* the callback for an incoming request has panicked and nothing replaced it
C14_Witness ==
    /\ task = "dispatch"
    /\ callback.phase = "returned"
    /\ callback.returned = NoListener
    /\ listener.st = "Running"
    /\ events[Len(events)].ev = "ReceivedMessage"


\* C15: when the task panics in its loop, send_event_blocking invokes the
\* installed listener once with Finished(Err(Unknown)) (nobody if the slot
\* holds none) and the task waits for it before it drops anything; whether the
\* callback returns or panics the task goes on unwinding, no other event is
\* emitted from then on, and a callback that panicked is not put back: the
\* slot is left with no listener or with the one set meanwhile.
C15_TaskPanicTellsListenerOnce ==
    /\ [][task = "loop" /\ task' \in {"unwind", "unwound"} =>
            IF ListenerInstalled
                THEN /\ events' = Append(events, FinishedEvent("Unknown"))
                     /\ task' = "unwind"
                     /\ in_progress' = 1
                     /\ callback'.taken = listener.cb
            ELSE events' = events /\ task' = "unwound"]_vars
    /\ [](task = "unwind" => rx = "open" /\ callback.phase # "none")
    /\ [][(task \in {"unwind", "unwound"}) =>
            /\ events' = events
            /\ task' \in {"unwind", "unwound", "dropped"}
            /\ task' = "dropped" => (task = "unwound" /\ task_output' = "Panic")]_vars
    /\ [][task = "unwind" /\ EndsAfterPanic =>
            /\ task' = "unwound"
            /\ listener' = IF listener.st = "ReplacedWhileRunning"
                             THEN NotRunning(listener.cb)
                             ELSE NotRunning(NoListener)]_vars

\* the task panicked, the listener was invoked with Finished(Err(Unknown)) and
\* panicked in turn
C15_Witness ==
    /\ task = "unwind"
    /\ callback.phase = "returned"
    /\ callback.returned = NoListener
    /\ events[Len(events)] = FinishedEvent("Unknown")
    /\ FinishedCount = 1


\* C16: a set_listener(l) call made while a callback is running leaves
\* ReplacedWhileRunning(l) in the slot, so the last such call wins; the slot is
\* only in that state while a callback is running or has just ended; when the
\* callback ends, by returning or by panicking, the slot becomes NotRunning(l)
\* and the callback that ran is dropped; and the callback invoked for an event
\* is always the one the slot holds when the event is dispatched.
C16_ReplacedWhileRunning ==
    /\ [][\A l \in {NoListener} \cup Listeners :
            SetListener(l) /\ listener.st # "NotRunning" =>
                listener' = ReplacedWhileRunning(l)]_vars
    /\ [](listener.st # "NotRunning" => callback.phase \in {"running", "returned"})
    /\ [][callback.phase = "returned" /\ callback'.phase = "none"
          /\ listener.st = "ReplacedWhileRunning" =>
            listener' = NotRunning(listener.cb)]_vars
    /\ [][callback.phase = "none" /\ callback'.phase = "running" =>
            /\ listener.st = "NotRunning"
            /\ callback'.taken = listener.cb
            /\ listener' = Running]_vars

\* a callback has panicked after set_listener replaced it with another one
C16_Witness ==
    /\ callback.phase = "returned"
    /\ callback.returned = NoListener
    /\ listener.st = "ReplacedWhileRunning"
    /\ listener.cb \notin {NoListener, callback.taken}
    /\ task = "dispatch"


\* the task has ended with an error or a panic and its JoinHandle is complete
FinishedWithError == task = "finished" /\ task_output # "Ok"

\* the reason C17 names for the way the task ended
ExitReason ==
    IF task_output = "Panic" THEN "chat task panicked"
    ELSE CASE exit_result \in {"PingFailed", "CloseFailed", "SendIo", "SendTooLarge", "SendProtocol"}
                -> "send failed"
           [] exit_result = "AbnormalServerClose" -> "server closed abnormally"
           [] exit_result = "ServerIdleTimeout" -> "server idle too long"
           [] exit_result = "UnexpectedConnectionClose" -> "server closed unexpectedly"
           [] exit_result = "ReceiveError" -> "receive failed"
           [] OTHER -> "none"

\* C17, as claimed: once the task has finished with an error or a panic, every
\* send call made afterwards returns Disconnected with the reason of that exit
\* (stated here only for the calls whose headers can be rendered).
C17_Original ==
    [][\A c \in Calls :
            FinishedWithError /\ SendBegin(c) /\ sends'[c].pc = "done" =>
                sends'[c].result = Disconnected(ExitReason)]_vars

\* C17, amended: once the task has finished with an error or a panic, a send
\* call that has not enqueued its request returns InvalidRequest if its headers
\* cannot be rendered, Disconnected("task was already signalled to end") if it
\* finds the state a disconnect() left, and otherwise Disconnected with the
\* reason of that exit; it does not panic; and a stored Finished state holds
\* the task's actual result.
C17_SendAfterTaskError ==
    /\ [][\A c \in Calls :
            /\ FinishedWithError
            /\ sends[c].pc \in {"idle", "enqueue", "relock", "join"}
            /\ sends'[c].pc \notin {sends[c].pc, "enqueue", "relock", "join"}
            => /\ sends'[c].pc = "done"
               /\ sends'[c].result =
                    IF SendInvalidHeader(c) THEN SendErr("InvalidRequest")
                    ELSE IF sends[c].pc = "idle" /\ state.tag = "SignaledToEnd"
                        THEN Disconnected("task was already signalled to end")
                    ELSE Disconnected(ExitReason)]_vars
    /\ [](state.tag = "Finished" => task = "finished" /\ state.result = task_output)

\* the task ended on a server idle timeout, a send joined it and stored the
\* result, and a send returned the reason for it
C17_Witness ==
    /\ task = "finished"
    /\ exit_result = "ServerIdleTimeout"
    /\ state = Finished("ServerIdleTooLong")
    /\ \E c \in Calls : sends[c] = Returned(Disconnected("server idle too long"))


\* C18: a send call that returns InvalidRequest does so in one step that
\* changes nothing but the call itself; it never had a request id, a oneshot in
\* use, or a request in the channel, with the codec or in the in-flight table;
\* and the id counter counts the encoded requests only, so the ids of the other
\* requests are what they would be without the call.
C18_InvalidHeaderNoEffect ==
    /\ [][\A c \in Calls :
            sends'[c].result.kind = "InvalidRequest" /\ sends[c] # sends'[c] =>
                /\ sends[c] = Idle
                /\ sends'[c] = Returned(SendErr("InvalidRequest"))
                /\ UNCHANGED << handleVars, reply, assigned, chanVars, idVars,
                                codecVars, listenerVars, responders, taskVars >>]_vars
    /\ [](\A c \in Calls : sends[c].result.kind = "InvalidRequest" =>
            /\ assigned[c] = -1
            /\ reply[c] = Empty
            /\ c \notin Range(request_chan)
            /\ c \notin {m.owner : m \in {x \in codec_pending : x.kind = "SentRequest"}}
            /\ c \notin {e.call : e \in requests_in_flight})
    /\ [](/\ request_id = (initial_request_id + Len(sent_request_ids)) % IdMod
          /\ Len(sent_request_ids) = Cardinality({c \in Calls : assigned[c] # -1}))

\* the first call was refused for its headers and the second got the
\* connection's first request id and its response
C18_Witness ==
    /\ MaxSends >= 2
    /\ sends[1] = Returned(SendErr("InvalidRequest"))
    /\ sends[2].pc = "done"
    /\ sends[2].result = Ok(initial_request_id)
    /\ sent_request_ids = << initial_request_id >>


\* C19: a send whose enqueue failed returns, and when it does the handle state
\* is Finished with the task's result and the call returns Disconnected with
\* the reason for that result.
C19_Original ==
    [][\A c \in Calls :
            sends[c].pc \in {"relock", "join"} /\ sends'[c].pc \notin {"relock", "join"} =>
                /\ sends'[c].pc = "done"
                /\ state'.tag = "Finished"
                /\ state'.result = task_output
                /\ sends'[c].result = SendErrorFromFinishState(task_output)]_vars

\* the frames encoded and the responses still in the channel, oldest first
ResponseOrder ==
    sent_responses \o
        [i \in 1 .. Len(response_chan) |->
            [id |-> response_chan[i].id, status |-> response_chan[i].status]]

\* C20: every response frame carries the id of a request a listener was
\* invoked with and the status given to send_response on the Responder for
\* that id, which returned Ok; no Responder has two responses encoded or
\* queued; a send_response call adds its response behind all earlier ones, and
\* frames are encoded from the front of the queue, so they leave in the order
\* of the calls.
C20_ResponseFrames ==
    /\ [](\A i \in 1 .. Len(sent_responses) :
            /\ sent_responses[i].id \in Range(ReceivedIds)
            /\ \E k \in 1 .. Len(responders) :
                /\ responders[k].id = sent_responses[i].id
                /\ responders[k].status = sent_responses[i].status
                /\ responders[k].st = "used"
                /\ responders[k].result.kind = "Ok")
    /\ [](\A i, j \in 1 .. Len(ResponseOrder) :
            i # j => ResponseOrder[i].id # ResponseOrder[j].id)
    /\ [][\/ ResponseOrder' = ResponseOrder
          \/ \E k \in 1 .. Len(responders) :
                /\ SendResponseReturns(k)
                /\ sent_responses' = sent_responses
                /\ ResponseOrder' = Append(ResponseOrder,
                        [id |-> responders[k].id, status |-> responders'[k].status])
          \/ rx = "open" /\ rx' = "dropped" /\ ResponseOrder' = sent_responses]_vars

\* the listener answered the second request before the first, with different
\* statuses, and the frames left in that order
C20_Witness ==
    /\ Len(incoming) >= 2
    /\ sent_responses = << [id |-> incoming[2], status |-> 201],
                           [id |-> incoming[1], status |-> 200] >>


\* the task handles, in this step, a valid Response frame carrying the id of
\* call c's request while that request is in the in-flight table
MatchingResponseHandled(c) ==
    \E m \in Frames :
        /\ HandleReceivedMessage(m)
        /\ ChatMessageTryFrom(m).kind = "Response"
        /\ ChatMessageTryFrom(m).id = assigned[c]
        /\ c \in InFlightOwners(requests_in_flight, assigned[c])

\* C21: a disconnect() completes no send call; a send that was awaiting its
\* reply when a disconnect() completed gets Ok exactly when the task, still in
\* its loop, handles the matching response, and then returns Ok(response) with
\* its own id; in every other case it returns an error.
C21_DisconnectKeepsAwaitingSends ==
    /\ [][Disconnect => sends' = sends /\ reply' = reply]_vars
    /\ [][\A c \in awaiting :
            /\ MatchingResponseHandled(c) => reply'[c] = SentOk(assigned[c])
            /\ reply[c].st = "empty" /\ reply'[c].kind = "Ok" =>
                    task = "loop" /\ MatchingResponseHandled(c)
            /\ sends[c].pc = "await" /\ sends'[c].pc # "await" =>
                    /\ sends'[c].pc = "done"
                    /\ reply[c].kind = "Ok" => sends'[c].result = Ok(assigned[c])
                    /\ reply[c].kind # "Ok" =>
                            sends'[c].result.kind \in
                                {"Disconnected", "Io", "MessageTooLarge", "Protocol",
                                 "InvalidResponse"}]_vars

\* a send that was awaiting its reply when disconnect() completed has returned
\* Ok
C21_Witness ==
    \E c \in awaiting : sends[c].pc = "done" /\ sends[c].result.kind = "Ok"


\* this step is the add_frame call for frame f
Added(f) ==
    /\ frame_result' = add_frame(partial, f).result
    /\ partial' = add_frame(partial, f).self

\* the frame carries the id of a frame of its kind that was added before
DuplicateFrame(f) ==
    \/ f.item = "Recipient" /\ f.id \in DOMAIN partial.recipients
    \/ f.item = "Chat" /\ f.id \in DOMAIN partial.chats
    \/ f.item = "Call" /\ f.id \in DOMAIN partial.calls

\* C22: with either method, adding a Recipient, Chat or Call frame whose id is
\* the id of a frame of the same kind already added returns an error and
\* leaves the stored recipients, chats and calls as they were.
C22_DuplicateIdRejected ==
    [][\A f \in BackupFrames :
        DuplicateFrame(f) /\ Added(f) =>
            /\ frame_result'.kind = "Err"
            /\ partial'.recipients = partial.recipients
            /\ partial'.chats = partial.chats
            /\ partial'.calls = partial.calls]_vars

\* a second Chat frame with the id of a stored chat was rejected by a
\* PartialBackup<Store> that also holds a recipient and a call
C22_Witness ==
    /\ partial.method = "Store"
    /\ frame_result.err = "DuplicateId"
    /\ frame_result.id \in DOMAIN partial.chats
    /\ partial.calls # EmptyMap

\* the frame refers to a record that was not added
MissingForeignKey(f) ==
    \/ f.item = "Chat" /\ f.foreign \notin DOMAIN partial.recipients
    \/ f.item = "Call" /\ partial = PartialBackupNew(partial.method)
    \/ f.item = "ChatItem" /\ f.foreign \notin DOMAIN partial.chats
    \/ f.item = "ChatItem" /\ f.author \notin DOMAIN partial.recipients

\* C23: a Chat whose recipient is unknown, a Call added to an empty backup, a
\* ChatItem whose chat is unknown and a ChatItem whose author is unknown are
\* rejected with an error; every stored chat refers to a stored recipient and
\* every stored chat item belongs to the stored chat that holds it.
C23_ForeignKeysExist ==
    /\ [][\A f \in BackupFrames :
            MissingForeignKey(f) /\ Added(f) => frame_result'.kind = "Err"]_vars
    /\ [](\A c \in DOMAIN partial.chats :
            /\ partial.chats[c].recipient \in DOMAIN partial.recipients
            /\ \A i \in 1 .. Len(partial.chats[c].items) :
                    partial.chats[c].items[i].chat = c)

\* a ChatItem for a chat that was not added was rejected by a backup that
\* holds another chat with an item
C23_Witness ==
    /\ frame_result.err = "NoChatForItem"
    /\ frame_result.id \notin DOMAIN partial.chats
    /\ \E c \in DOMAIN partial.chats : Len(partial.chats[c].items) > 0

\* C24: the first valid AccountData frame is accepted and stored; with account
\* data stored, every AccountData frame returns MultipleAccountData and leaves
\* the backup as it was; at most one AccountData is stored.
C24_OneAccountData ==
    /\ [][\A f \in BackupFrames :
            f.item = "Account" /\ Added(f) =>
                IF partial.account_data # << >>
                    THEN /\ frame_result' = ValidationError("MultipleAccountData", NoId)
                         /\ partial' = partial
                ELSE IF f.valid
                    THEN /\ frame_result' = BackupOk
                         /\ partial'.account_data = << MethodValue(partial.method, f.v) >>
                ELSE /\ frame_result'.kind = "Err"
                     /\ partial' = partial]_vars
    /\ [](Len(partial.account_data) <= 1)

\* a PartialBackup<Store> holding the first account data rejected another
\* AccountData frame
C24_Witness ==
    /\ partial.method = "Store"
    /\ partial.account_data = << 1 >>
    /\ frame_result = ValidationError("MultipleAccountData", NoId)


\* C25: the handle's task state only moves forward: every change of Chat::state
\* is MaybeStillRunning to SignaledToEnd, MaybeStillRunning to Finished or
\* SignaledToEnd to Finished; a Finished state never changes again.
C25_TaskStateMonotonic ==
    [][state' # state =>
        << state.tag, state'.tag >> \in
            {<< "MaybeStillRunning", "SignaledToEnd" >>,
             << "MaybeStillRunning", "Finished" >>,
             << "SignaledToEnd", "Finished" >>}]_vars

\* the state went from MaybeStillRunning through SignaledToEnd, which one send
\* found, to Finished, which another send recorded after joining the task, and
\* a disconnect() was called on it
C25_Witness ==
    /\ state.tag = "Finished"
    /\ disconnects
    /\ \E c \in Calls : sends[c].result = Disconnected("task was already signalled to end")


\* a send_event or send_event_blocking call has taken the listener and has not
\* yet put the slot back
DispatchInProgress == callback.phase # "none"

\* C26: the listener slot is Running or ReplacedWhileRunning exactly while a
\* dispatch that took a listener is in progress and NotRunning otherwise; the
\* task is between dispatches whenever it can start one, so no dispatch finds
\* Running or ReplacedWhileRunning on entry or NotRunning when it locks the
\* slot again, and neither unreachable!() is ever executed.
C26_RunningOnlyDuringDispatch ==
    /\ DispatchInProgress <=> listener.st \in {"Running", "ReplacedWhileRunning"}
    /\ ~DispatchInProgress <=> listener.st = "NotRunning"
    /\ task = "loop" => ~DispatchInProgress
    /\ DispatchInProgress => task \in {"dispatch", "final", "unwind"}
    /\ task # "aborted"

\* the final dispatch is about to lock the slot again after its callback
\* panicked, and set_listener was called during the callback
C26_Witness ==
    /\ task = "final"
    /\ callback.phase = "returned"
    /\ callback.returned = NoListener
    /\ listener.st = "ReplacedWhileRunning"


\* every frame the peer can send next: a text frame, bytes that are no
\* envelope, and the envelopes with any type and any combination of payloads
Envelopes ==
    {Text, Garbage}
    \cup {Binary(t, request, response) :
            t \in MessageTypes,
            request \in {NoRequest, RequestProtoNoId,
                         RequestProto(InitialIncomingRequestId + Len(incoming))},
            response \in {NoResponse, ResponseProtoNoId}
                         \cup {ResponseProto(request_id, v) : v \in BOOLEAN}}

\* the rules from `type = Unknown` on, applied in order to a decoded envelope;
\* an absent type reads as Unknown
RulesOnEnvelope(m) ==
    IF m.type \in {"None", "Unknown"} THEN ChatProtocolError("UnknownMessageType", -1)
    ELSE IF m.type = "Request" /\ m.response.present
        THEN ChatProtocolError("RequestHasResponse", -1)
    ELSE IF m.type = "Response" /\ m.request.present
        THEN ChatProtocolError("ResponseHasRequest", -1)
    ELSE IF m.type = "Response" THEN
        IF ~m.response.present THEN ChatProtocolError("MissingPayload", -1)
        ELSE IF ~m.response.has_id THEN ChatProtocolError("ResponseMissingId", -1)
        ELSE IF ~m.response.valid THEN ChatProtocolError("InvalidResponse", m.response.id)
        ELSE [kind |-> "Response", err |-> "", id |-> m.response.id]
    ELSE
        IF ~m.request.present THEN ChatProtocolError("MissingPayload", -1)
        ELSE IF ~m.request.has_id THEN ChatProtocolError("RequestMissingId", -1)
        ELSE [kind |-> "Request", err |-> "", id |-> m.request.id]

\* C27, as claimed: whenever the task can take a frame, a text frame gives ReceivedTextMessage, undecodable bytes
\* give InvalidProtobuf, and every decoded envelope is classified by the rules
\* from `type = Unknown` on.
C27_Original ==
    task = "loop" => \A m \in Envelopes :
        ChatMessageTryFrom(m) =
            IF m.text THEN ChatProtocolError("ReceivedTextMessage", -1)
            ELSE IF ~m.decodes THEN ChatProtocolError("InvalidProtobuf", -1)
            ELSE RulesOnEnvelope(m)

\* C27, amended: whenever the task can take a frame it is classified as
\* claimed, with one more rule after InvalidProtobuf: a type
\* that is none of Unknown, Request and Response gives InvalidMessageType,
\* whatever payloads the envelope has.
C27_DecodingRules ==
    task = "loop" => \A m \in Envelopes :
        ChatMessageTryFrom(m) =
            IF m.text THEN ChatProtocolError("ReceivedTextMessage", -1)
            ELSE IF ~m.decodes THEN ChatProtocolError("InvalidProtobuf", -1)
            ELSE IF m.type = "Invalid" THEN ChatProtocolError("InvalidMessageType", -1)
            ELSE RulesOnEnvelope(m)

\* the task classified a frame as InvalidResponse(id) and failed the send
\* with that id, and classified another frame as a Request and dispatched it
C27_Witness ==
    /\ \E c \in Calls : reply[c] = SentInvalidResponse /\ assigned[c] \in OutIds
    /\ Len(incoming) > 0


\* the RequestProto and ResponseProto payloads in use: with and without an id,
\* responses that parse as a Response and responses that do not
RequestPayloads ==
    {RequestProtoNoId, RequestProto(request_id),
     RequestProto(InitialIncomingRequestId + Len(incoming))}
ResponsePayloads ==
    {ResponseProtoNoId}
    \cup {ResponseProto(i, v) :
            i \in {request_id, InitialIncomingRequestId + Len(incoming)}, v \in BOOLEAN}

\* C28: the envelope built from a Request or Response payload has the type of
\* its payload and that payload as its only one, and encoding it, decoding the
\* bytes and validating the envelope gives back the same variant with the same
\* payload, never an error.
C28_EnvelopeRoundTrip ==
    /\ \A p \in RequestPayloads :
        LET built == MessageProtoFromRequest(p) IN
        /\ built.type = "Request" /\ built.request = p /\ ~built.response.present
        /\ decode_and_validate(MessageProtoDecode(encode_to_vec(built))) =
                [ok |-> TRUE, err |-> "", variant |-> "Request",
                 request |-> p, response |-> NoResponse]
    /\ \A p \in ResponsePayloads :
        LET built == MessageProtoFromResponse(p) IN
        /\ built.type = "Response" /\ built.response = p /\ ~built.request.present
        /\ decode_and_validate(MessageProtoDecode(encode_to_vec(built))) =
                [ok |-> TRUE, err |-> "", variant |-> "Response",
                 request |-> NoRequest, response |-> p]

\* the task decoded a request envelope and a response envelope built by the
\* peer: the request reached the listener and the response its send call
C28_Witness ==
    /\ \E c \in Calls : sends[c].result = Ok(assigned[c])
    /\ \E i \in 1 .. Len(events) :
            events[i] = ListenerEvent("ReceivedMessage", InitialIncomingRequestId, "")


\* the connection, with its in-flight table, has not been dropped
DriverAlive == task \in {"loop", "dispatch", "final", "unwind", "exiting", "unwound"}

\* the send calls whose request the codec confirmed as sent and whose reply
\* slot no handled Response, InvalidResponse or SendFailed has filled
ConfirmedUnanswered ==
    {c \in Calls :
        /\ assigned[c] # -1
        /\ RequestMeta(assigned[c], c) \notin codec_pending
        /\ reply[c].st = "empty"}

\* the task handles, in this step, SentMessage(SentRequest(id, _))
RequestConfirmed ==
    \E meta \in codec_pending : meta.kind = "SentRequest" /\ HandleSentMessage(meta)

\* the task handles, in this step, a Response or InvalidResponse frame whose id
\* is in the in-flight table
CorrelatedResponseHandled ==
    \E m \in Frames :
        /\ HandleReceivedMessage(m)
        /\ \/ ChatMessageTryFrom(m).kind = "Response"
           \/ ChatMessageTryFrom(m).err = "InvalidResponse"
        /\ ChatMessageTryFrom(m).id \in InFlightIds(requests_in_flight)

\* C29: while the driver lives, the in-flight table holds exactly the requests
\* that were confirmed as sent and not answered since, each under the id it was
\* encoded with; the table changes only when a SentRequest is confirmed, when a
\* Response or InvalidResponse with an id in the table is handled, and when the
\* connection is dropped.
C29_InFlightTable ==
    /\ [](DriverAlive =>
            requests_in_flight = {[id |-> assigned[c], call |-> c] : c \in ConfirmedUnanswered})
    /\ [][requests_in_flight' # requests_in_flight =>
            \/ RequestConfirmed
               /\ InFlightIds(requests_in_flight) \subseteq InFlightIds(requests_in_flight')
            \/ CorrelatedResponseHandled
               /\ requests_in_flight' \subseteq requests_in_flight
            \/ TaskDropsConnection]_vars

\* an InvalidResponse took one request out of the table while the request of
\* another send call stays in it
C29_Witness ==
    /\ DriverAlive
    /\ \E c \in Calls : reply[c] = SentInvalidResponse
    /\ requests_in_flight # {}


\* the outbound requests the codec took and has not reported on
PendingRequests == {meta \in codec_pending : meta.kind = "SentRequest"}

\* C30: no id occurs twice in the in-flight table, and record_send is never
\* called with an id that is already in the table: handling
\* SentMessage(SentRequest) never panics, the task stays in its loop and the
\* table grows by one entry.
C30_OutboundIdsUnique ==
    /\ [](\A a, b \in requests_in_flight : a.id = b.id => a = b)
    /\ [][\A meta \in PendingRequests :
            HandleSentMessage(meta) =>
                /\ meta.id \notin InFlightIds(requests_in_flight)
                /\ task' = "loop"
                /\ events' = events
                /\ Cardinality(requests_in_flight') = Cardinality(requests_in_flight) + 1]_vars



\* a Response frame with id X whose inner validation fails
InvalidResponseFrame(X) == MessageProtoFromResponse(ResponseProto(X, FALSE))

\* C31: when the task handles a Response frame with id X that fails the inner
\* validation while X is in the in-flight table, the oneshot of the send call
\* that owns X gets Err(InvalidResponse) and that call returns
\* Err(SendError::InvalidResponse); the entry of X leaves the table and every
\* other entry, every other oneshot and the listener's events stay as they were;
\* the task stays in its loop.
C31_InvalidResponseInFlight ==
    /\ [](\A X \in InFlightIds(requests_in_flight) :
            /\ InvalidResponseFrame(X) \in Frames
            /\ ChatMessageTryFrom(InvalidResponseFrame(X)) =
                    ChatProtocolError("InvalidResponse", X))
    /\ [][\A X \in InFlightIds(requests_in_flight) :
            HandleReceivedMessage(InvalidResponseFrame(X)) =>
                /\ \A e \in requests_in_flight :
                        e.id = X => reply'[e.call] = SentInvalidResponse
                /\ requests_in_flight' = {e \in requests_in_flight : e.id # X}
                /\ \A c \in Calls :
                        c \notin InFlightOwners(requests_in_flight, X) => reply'[c] = reply[c]
                /\ task' = "loop"
                /\ exit_result' = "none"
                /\ events' = events]_vars
    /\ [](\A c \in Calls :
            sends[c].pc = "done" /\ reply[c] = SentInvalidResponse =>
                sends[c].result = SendErr("InvalidResponse"))
    /\ [][\A c \in Calls :
            SendReceive(c) /\ reply[c] = SentInvalidResponse =>
                sends'[c] = Returned(SendErr("InvalidResponse"))]_vars

\* one send call returned Err(InvalidResponse) and the other got its own
\* response; both entries have left the table and the task is in its loop
C31_Witness ==
    /\ sends[1] = Returned(SendErr("InvalidResponse"))
    /\ sends[2].pc = "done"
    /\ sends[2].result = Ok(assigned[2])
    /\ requests_in_flight = {}
    /\ task = "loop"



\* C32: a send call whose enqueue on the request channel failed finds, while
\* the handle state is MaybeStillRunning, the task marked finished, so the
\* assertion task.is_finished() of wait_for_task_to_finish holds: no send call
\* panics.
C32_TaskFinishedWhenEnqueueFails ==
    /\ \A c \in Calls :
            sends[c].pc = "relock" /\ state.tag = "MaybeStillRunning" => task = "finished"
    /\ \A c \in Calls : sends[c].pc # "panicked"



\* the exit result C33 names for each send error
C33_ExitFor(e) ==
    CASE e = "Io" -> "SendIo"
      [] e = "MessageTooLarge" -> "SendTooLarge"
      [] e = "WebSocketProtocol" -> "SendProtocol"
      [] e = "ConnectionAlreadyClosed" -> "Ok"

\* C33: handling SendFailed(meta, e) makes the task leave its loop with the
\* exit result that belongs to e (Io: SendIo, MessageTooLarge: SendTooLarge,
\* WebSocketProtocol: SendProtocol, ConnectionAlreadyClosed: Ok), whether meta
\* is an outbound request or a response to an incoming request; the installed
\* listener is invoked with Finished of that result; the oneshot of the send
\* call that owns a failed request gets the error, and for
\* ConnectionAlreadyClosed that call returns Disconnected.
C33_SendFailedEndsTask ==
    /\ [][\A meta \in codec_pending, e \in workload.faults \cap TungsteniteSendErrors :
            HandleSendFailed(meta, e) =>
                /\ exit_result' = C33_ExitFor(e)
                /\ Exited'
                /\ events' = IF ListenerInstalled
                               THEN Append(events, FinishedEvent(C33_ExitFor(e)))
                               ELSE events
                /\ meta.kind = "SentRequest" =>
                        reply'[meta.owner] = SentStreamSendFailed(e)]_vars
    /\ [](\A c \in Calls :
            sends[c].pc = "done" /\ reply[c] = SentStreamSendFailed("ConnectionAlreadyClosed") =>
                sends[c].result.kind = "Disconnected")

\* a request failed with ConnectionAlreadyClosed: the task ended gracefully, the
\* listener got Finished(Ok(())) and the owner's send returned Disconnected
C33_Witness ==
    /\ exit_result = "Ok"
    /\ task_output = "Ok"
    /\ FinishedEvent("Ok") \in Range(events)
    /\ \E c \in Calls :
        /\ reply[c] = SentStreamSendFailed("ConnectionAlreadyClosed")
        /\ sends[c] = Returned(Disconnected("task failure due to send failure"))



\* the send calls suspended in tx.send(..).await or in receiver.await
SuspendedSends == {c \in Calls : sends[c].pc \in {"enqueue", "await"}}

\* C34: a send call that waits for channel capacity or for its reply does not
\* hold the lock on the task state; the lock is held across an await only by a
\* call that joins a task which has already dropped its connection. Whenever
\* the lock is free, whatever the number of suspended send calls, disconnect()
\* can take it and a send call that has not started can take it; both release
\* it again in the same step.
C34_NoLockWhileSuspended ==
    /\ \A c \in SuspendedSends : lock_owner # c
    /\ lock_owner # 0 =>
            /\ sends[lock_owner].pc = "join"
            /\ task \in {"dropped", "finished"}
    /\ lock_owner = 0 =>
            /\ ENABLED Disconnect
            /\ \A c \in Calls :
                    c <= workload.sends /\ sends[c].pc = "idle" => ENABLED SendBegin(c)
    /\ lock_owner # 0 /\ task = "finished" => ENABLED SendJoin(lock_owner)

\* one send call awaits its reply; meanwhile disconnect() completed and the
\* other send call took the lock and returned
C34_Witness ==
    /\ sends[1].pc = "await"
    /\ reply[1].st = "empty"
    /\ 1 \in awaiting
    /\ sends[2] = Returned(Disconnected("task was already signalled to end"))
    /\ lock_owner = 0



\* the task handles, in this step, a Response frame with id X, valid or not
ResponseHandled(X) ==
    \E v \in BOOLEAN : HandleReceivedMessage(MessageProtoFromResponse(ResponseProto(X, v)))

\* C35: while the request of a send call is encoded with id X and not yet
\* confirmed as sent, the task can handle a Response with id X, and doing so
\* changes nothing: the response is not delivered to the call, whose oneshot
\* stays empty. Recording the confirmation afterwards puts X into the in-flight
\* table and leaves the oneshot empty; from then on the oneshot of the call is
\* filled or dropped only when a Response with id X is handled or the task
\* drops its connection.
C35_EarlyResponseDiscarded ==
    /\ [](\A meta \in PendingRequests :
            task = "loop" /\ meta.id \notin InFlightIds(requests_in_flight) =>
                LET early == MessageProtoFromResponse(ResponseProto(meta.id, TRUE)) IN
                /\ reply[meta.owner] = Empty
                /\ sends[meta.owner].pc = "await"
                /\ early \in Frames
                /\ ENABLED HandleReceivedMessage(early)
                /\ ~ENABLED (HandleReceivedMessage(early) /\ vars' # vars))
    /\ [][\A meta \in PendingRequests :
            HandleSentMessage(meta) /\ meta.id \notin InFlightIds(requests_in_flight) =>
                /\ reply'[meta.owner] = Empty
                /\ sends'[meta.owner].pc = "await"
                /\ [id |-> meta.id, call |-> meta.owner] \in requests_in_flight']_vars
    /\ [][\A c \in ConfirmedUnanswered :
            reply'[c] # reply[c] \/ sends'[c] # sends[c] =>
                \/ ResponseHandled(assigned[c])
                \/ TaskDropsConnection]_vars

\* a request is encoded and not yet confirmed as sent while its send call
\* awaits the reply and the task is in its loop: a Response with its id that the
\* task handles now leaves this state as it is
C35_Witness ==
    /\ task = "loop"
    /\ requests_in_flight = {}
    /\ \E c \in Calls :
        /\ RequestMeta(initial_request_id, c) \in codec_pending
        /\ sends[c].pc = "await"
        /\ reply[c] = Empty
    /\ ENABLED HandleReceivedMessage(MessageProtoFromResponse(ResponseProto(initial_request_id, TRUE)))



\* the send calls between cloning request_tx and returning
SendsHoldingSender == {c \in Calls : sends[c].pc \in {"enqueue", "await", "relock", "join"}}

\* C36: a send call holds its clone of request_tx from the moment it cloned it
\* until it returns, so while such a call exists the request channel has a
\* sender and the outgoing stream has not ended, whether or not disconnect()
\* has completed; the codec sees the outgoing stream end only in a state where
\* no send call is between the clone and its return.
C36_SendKeepsChannelOpen ==
    /\ [](\A c \in SendsHoldingSender :
            /\ sends[c].tx
            /\ RequestSenders > 0
            /\ ~OutgoingStreamEnded
            /\ ~outgoing_ended)
    /\ [][OutgoingEnds => SendsHoldingSender = {}]_vars
    /\ [][outgoing_ended' /\ ~outgoing_ended => disconnects]_vars

\* a send call was awaiting its reply when disconnect() completed; the outgoing
\* stream ended after that call got its response and returned
C36_Witness ==
    /\ 1 \in awaiting
    /\ sends[1] = Returned(Ok(assigned[1]))
    /\ outgoing_ended
    /\ task = "loop"



\* the task has dropped its connection: both receivers, the channels' buffers,
\* what the codec holds and the in-flight table
TaskExited == task \in {"dropped", "finished"}

\* a send call that has cloned request_tx and has neither returned nor been
\* given a response
PendingSend(c) ==
    \/ sends[c].pc \in {"enqueue", "relock", "join"}
    \/ sends[c].pc = "await" /\ reply[c].kind # "Ok"

\* C37: once the task has exited, every send call that was waiting for channel
\* capacity, queued, handed to the codec or in flight eventually returns, and
\* returns an error.
C37_SendsReturnAfterTaskExit ==
    \A c \in Calls :
        (TaskExited /\ PendingSend(c))
            ~> (sends[c].pc = "done" /\ sends[c].result.kind \notin {"Ok", "none"})



\* a listener has been invoked with Finished
FinishedDispatched == FinishedCount > 0

\* C38: a Finished event is the last event any listener is invoked with: no
\* event follows it in the order of invocation, whichever listener is installed
\* later; and once it has been dispatched the task is outside its loop for
\* good, so it takes no further codec event: it receives no request, encodes
\* nothing and records nothing as in flight.
C38_FinishedIsLast ==
    /\ [](\A i \in 1 .. Len(events) : events[i].ev = "Finished" => i = Len(events))
    /\ [](FinishedDispatched => task \notin {"loop", "dispatch"})
    /\ [][FinishedDispatched =>
            /\ events' = events
            /\ Len(responders') = Len(responders)
            /\ incoming' = incoming
            /\ sent_request_ids' = sent_request_ids
            /\ sent_responses' = sent_responses
            /\ requests_in_flight' \in {requests_in_flight, {}}
            /\ codec_pending' \in {codec_pending, {}}
            /\ task' \notin {"loop", "dispatch"}]_vars

\* the listener got a request and then Finished; the task has ended with a
\* listener in the slot while the peer had a further request to send
C38_Witness ==
    /\ Len(events) = 2
    /\ events[1].ev = "ReceivedMessage"
    /\ events[2].ev = "Finished"
    /\ listener.st = "NotRunning"
    /\ listener.cb # NoListener
    /\ callback = NoCallback
    /\ Len(incoming) < workload.incoming
    /\ task = "finished"



\* the slot holds no listener and no callback is running
NoListenerInstalled == listener = NotRunning(NoListener)

\* the request frame the peer sends next
NextRequestFrame ==
    MessageProtoFromRequest(RequestProto(InitialIncomingRequestId + Len(incoming)))

\* the ids of the requests listeners were invoked with, in order
DeliveredRequests ==
    LET F[i \in 0 .. Len(events)] ==
            IF i = 0 THEN << >>
            ELSE IF events[i].ev = "ReceivedMessage" THEN Append(F[i - 1], events[i].id)
            ELSE F[i - 1]
    IN F[Len(events)]

\* C39: an event dispatched while the slot is NotRunning(None) is dropped: a
\* request received then invokes no listener, makes no Responder and queues no
\* response, the slot stays NotRunning(None) and the task stays in its loop; a
\* Finished dispatched then invokes no listener either. Nothing is kept for
\* later: a listener is invoked only in the step in which the task takes the
\* event from the codec, so installing a listener delivers nothing, and every
\* Responder and every response frame belongs to a request a listener was
\* invoked with.
C39_NoListenerDropsEvent ==
    /\ [][NoListenerInstalled /\ incoming' # incoming =>
               /\ HandleReceivedMessage(NextRequestFrame)
               /\ incoming' = Append(incoming, ChatMessageTryFrom(NextRequestFrame).id)
               /\ events' = events
               /\ responders' = responders
               /\ response_chan' = response_chan
               /\ sent_responses' = sent_responses
               /\ listener' = listener
               /\ callback' = callback
               /\ task' = "loop"]_vars
    /\ [][NoListenerInstalled /\ task = "loop" /\ task' \notin {"loop", "dispatch"} =>
            /\ events' = events
            /\ listener' = listener
            /\ callback' = callback]_vars
    /\ [][events' # events =>
            /\ ListenerInstalled
            /\ task = "loop"
            /\ \/ /\ incoming' # incoming
                  /\ events' = Append(events,
                        ListenerEvent("ReceivedMessage", incoming'[Len(incoming')], ""))
               \/ /\ incoming' = incoming
                  /\ Len(events') = Len(events) + 1
                  /\ events'[Len(events')].ev = "Finished"]_vars
    /\ [](/\ Len(responders) = Len(DeliveredRequests)
          /\ \A k \in 1 .. Len(responders) : responders[k].id = DeliveredRequests[k]
          /\ \A i \in 1 .. Len(sent_responses) :
                sent_responses[i].id \in Range(DeliveredRequests))

\* the task received a request and ended while no listener was installed; the
\* listener installed afterwards has been invoked with nothing, and no
\* Responder and no response frame exists
C39_Witness ==
    /\ incoming # << >>
    /\ task = "finished"
    /\ events = << >>
    /\ responders = << >>
    /\ response_chan = << >>
    /\ sent_responses = << >>
    /\ ListenerInstalled



\* C40: a disconnect() call that finds the handle state Finished(r) or
\* SignaledToEnd leaves it as it found it: the temporary Finished(Ok(())) is
\* never what the call leaves behind, a state Finished(r) is never replaced, and
\* a send call that starts in Finished(r) with an error r returns the
\* Disconnected reason of r.
C40_DisconnectKeepsFinished ==
    /\ [][Disconnect /\ state.tag \in {"Finished", "SignaledToEnd"} => state' = state]_vars
    /\ [][state.tag = "Finished" => state' = state]_vars
    /\ [][\A c \in Calls :
            SendBegin(c) /\ state.tag = "Finished" /\ state.result # "Ok" =>
                /\ sends'[c] = Returned(SendErrorFromTaskErrorState(state.result))
                /\ sends'[c].result.kind = "Disconnected"
                /\ sends'[c].result.reason # "task already ended gracefully"]_vars

\* the handle state is Finished with an error after a disconnect() call, a further
\* disconnect() call can be made and a send call has reported the error's reason
C40_Witness ==
    /\ disconnects
    /\ state.tag = "Finished"
    /\ state.result = "AbnormalServerClose"
    /\ ENABLED Disconnect
    /\ sends[1].pc = "done"
    /\ sends[2] = Returned(Disconnected("server closed abnormally"))

====
